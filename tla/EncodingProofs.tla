--------------------------- MODULE EncodingProofs ---------------------------
(***************************************************************************)
(* That an instruction line appends the x86-64 instruction it asks for,    *)
(* for all operands and not just those of a run.  First the reading side:  *)
(* what Decode makes of prefixes, an opcode and a mod-r/m byte; then what  *)
(* a line asks for, by the shape of its operands; then one lemma per       *)
(* family of mnemonics that joins the two.                                 *)
(***************************************************************************)
EXTENDS Encoding, LexerProofs, SequenceTheorems

-----------------------------------------------------------------------------
(* LegacyPrefixes and opcode.                                                    *)
PartsOf(b, p, r, o, rest) ==
  /\ b \in Bytes
  /\ Len(b) = Len(p) + Len(r) + 1 + Len(rest)
  /\ \A k \in 1 .. Len(p) : b[k] = p[k]
  /\ \A k \in 1 .. Len(r) : b[Len(p) + k] = r[k]
  /\ b[Len(p) + Len(r) + 1] = o
  /\ \A k \in 1 .. Len(rest) : b[Len(p) + Len(r) + 1 + k] = rest[k]

(* The instruction behind the legacy prefixes p and perhaps a REX prefix.   *)
Opcode(o, rest, p, rex) ==
  DecodeOpcode(o, rest, OperandSize(o, rex, \E k \in 1 .. Len(p) : p[k] = \h66),
               IF \E k \in 1 .. Len(p) : p[k] = \h67 THEN 4 ELSE 8)

IsRex(r, rex) == r = IF rex THEN << \h48 >> ELSE << >>
Opcodes == {o \in Byte : o \notin LegacyPrefixes /\ o # \h48}

LEMMA PrefixedParts ==
  \A p, r, rest \in Bytes, o \in Byte :
    PartsOf(p \o r \o << o >> \o rest, p, r, o, rest)
  BY SMT DEF Bytes, PartsOf

LEMMA LegacyIs ==
  ASSUME NEW b \in Bytes, NEW n \in 0 .. Len(b),
         \A k \in 1 .. n : b[k] \in LegacyPrefixes,
         n < Len(b), b[n + 1] \notin LegacyPrefixes
  PROVE  Legacy(b) = n
<1>1. Len(b) \in Nat  BY BytesLen
<1>2. ASSUME NEW m \in 0 .. Len(b),
             \A k \in 1 .. m : b[k] \in LegacyPrefixes,
             m = Len(b) \/ b[m + 1] \notin LegacyPrefixes
      PROVE  m = n
  BY SMT, <1>1, <1>2
<1> QED  BY Zenon, <1>2 DEF Legacy

LEMMA SkipIs ==
  ASSUME NEW b \in Bytes, NEW n \in 0 .. Len(b), NEW t \in Bytes,
         Len(b) = n + Len(t),
         \A k \in 1 .. Len(t) : b[n + k] = t[k]
  PROVE  Skip(b, n) = t
  BY SMT DEF Skip, Bytes

LEMMA DecodeParts ==
  ASSUME NEW p \in Seq(LegacyPrefixes), NEW rex \in BOOLEAN, NEW r \in Bytes,
         IsRex(r, rex), NEW o \in Opcodes,
         NEW rest \in Bytes, NEW b, PartsOf(b, p, r, o, rest)
  PROVE  Decode(b) = Opcode(o, rest, p, rex)
<1>1. Len(p) \in Nat /\ \A k \in 1 .. Len(p) : p[k] \in LegacyPrefixes
  BY SMT
<1>2. (rex => Len(r) = 1 /\ r[1] = \h48) /\ (~rex => Len(r) = 0)
  <2>1. CASE rex
    <3>1. r = << \h48 >>  BY <2>1 DEF IsRex
    <3> QED  BY <2>1, <3>1
  <2>2. CASE ~rex
    <3>1. r = << >>  BY <2>2 DEF IsRex
    <3> QED  BY <2>2, <3>1
  <2> QED  BY <2>1, <2>2
<1>a. o \in Byte /\ o \notin LegacyPrefixes /\ o # \h48  BY DEF Opcodes
<1>3. Len(r) \in Nat /\ Len(rest) \in Nat  BY BytesLen
<1>4. /\ b \in Bytes
      /\ Len(b) = Len(p) + Len(r) + 1 + Len(rest)
      /\ \A k \in 1 .. Len(p) : b[k] = p[k]
      /\ \A k \in 1 .. Len(r) : b[Len(p) + k] = r[k]
      /\ b[Len(p) + Len(r) + 1] = o
      /\ \A k \in 1 .. Len(rest) : b[Len(p) + Len(r) + 1 + k] = rest[k]
  BY DEF PartsOf
<1>5. Legacy(b) = Len(p)
  <2>1. \A k \in 1 .. Len(p) : b[k] \in LegacyPrefixes  BY <1>1, <1>4
  <2>2. Len(p) \in 0 .. Len(b) /\ Len(p) < Len(b)  BY SMT, <1>1, <1>3, <1>4
  <2>3. b[Len(p) + 1] \notin LegacyPrefixes
    <3>1. CASE rex
      <4>0. Len(r) = 1 /\ r[1] = \h48  BY <1>2, <3>1
      <4>1. 1 \in 1 .. Len(r)  BY SMT, <4>0
      <4>2. b[Len(p) + 1] = \h48  BY <1>4, <4>0, <4>1
      <4>3. \h48 \notin LegacyPrefixes  BY SMT DEF LegacyPrefixes
      <4> QED  BY <4>2, <4>3
    <3>2. CASE ~rex
      <4>1. b[Len(p) + 1] = o  BY SMT, <1>1, <1>2, <1>4, <3>2
      <4> QED  BY <1>a, <4>1
    <3> QED  BY <3>1, <3>2
  <2> QED  BY <1>4, <2>1, <2>2, <2>3, LegacyIs
<1>6. Rex(b) <=> rex
  <2>1. Len(p) < Len(b)  BY SMT, <1>1, <1>3, <1>4
  <2>2. b[Len(p) + 1] = \h48 <=> rex
    <3>1. CASE rex
      <4>0. Len(r) = 1 /\ r[1] = \h48  BY <1>2, <3>1
      <4>1. 1 \in 1 .. Len(r)  BY SMT, <4>0
      <4> QED  BY <1>4, <3>1, <4>0, <4>1
    <3>2. CASE ~rex
      <4>1. b[Len(p) + 1] = o  BY SMT, <1>1, <1>2, <1>4, <3>2
      <4> QED  BY <1>a, <3>2, <4>1
    <3> QED  BY <3>1, <3>2
  <2> QED  BY <1>5, <2>1, <2>2 DEF Rex
<1>7. Body(b) = << o >> \o rest
  <2>1. << o >> \o rest \in Bytes /\ Len(<< o >> \o rest) = 1 + Len(rest)
        /\ (<< o >> \o rest)[1] = o
        /\ \A k \in 1 .. Len(rest) : (<< o >> \o rest)[1 + k] = rest[k]
    BY SMT, <1>a DEF Bytes
  <2>2. ASSUME NEW n \in Nat, n = Len(p) + Len(r) PROVE Skip(b, n) = << o >> \o rest
    <3> DEFINE t == << o >> \o rest
    <3>1. t \in Bytes /\ Len(t) = 1 + Len(rest) /\ t[1] = o
          /\ \A k \in 1 .. Len(rest) : t[1 + k] = rest[k]
      BY <2>1
    <3> HIDE DEF t
    <3>2. Len(b) = n + Len(t) /\ n \in 0 .. Len(b)
      BY SMT, <1>3, <1>4, <2>2, <3>1
    <3>3. ASSUME NEW k \in 1 .. Len(t) PROVE b[n + k] = t[k]
      <4>1. CASE k = 1  BY SMT, <1>4, <2>2, <3>1, <4>1
      <4>2. CASE k # 1
        <5> DEFINE j == k - 1
        <5>1. j \in 1 .. Len(rest) /\ k = 1 + j /\ n + k = Len(p) + Len(r) + 1 + j
          BY SMT, <1>1, <1>3, <2>2, <3>1, <4>2
        <5> HIDE DEF j
        <5>2. b[n + k] = b[Len(p) + Len(r) + 1 + j]  BY <5>1
        <5>3. b[Len(p) + Len(r) + 1 + j] = rest[j]  BY <1>4, <5>1
        <5>4. t[k] = t[1 + j] /\ t[1 + j] = rest[j]  BY <3>1, <5>1
        <5> QED  BY <5>2, <5>3, <5>4
      <4> QED  BY <4>1, <4>2
    <3> QED  BY <1>4, <3>1, <3>2, <3>3, SkipIs DEF t
  <2>3. (IF Rex(b) THEN Legacy(b) + 1 ELSE Legacy(b)) = Len(p) + Len(r)
    <3>1. CASE rex
      <4>1. Rex(b) /\ Len(r) = 1  BY <1>2, <1>6, <3>1
      <4> QED  BY <1>5, <4>1
    <3>2. CASE ~rex
      <4>1. ~Rex(b) /\ Len(p) = Len(p) + Len(r)
        BY SMT, <1>1, <1>2, <1>6, <3>2
      <4> QED  BY <1>5, <4>1
    <3> QED  BY <3>1, <3>2
  <2>4. Len(p) + Len(r) \in Nat  BY SMT, <1>1, <1>3
  <2> QED  BY <2>2, <2>3, <2>4 DEF Body
<1>8. /\ Body(b) # << >> /\ Body(b)[1] = o /\ Skip(Body(b), 1) = rest
  <2>1. << o >> \o rest \in Bytes /\ Len(<< o >> \o rest) = 1 + Len(rest)
        /\ (<< o >> \o rest)[1] = o
        /\ \A k \in 1 .. Len(rest) : (<< o >> \o rest)[1 + k] = rest[k]
    BY SMT, <1>a DEF Bytes
  <2>2. 1 \in 0 .. (1 + Len(rest))  BY SMT, <1>3
  <2>3. ASSUME NEW t \in Bytes, Len(t) = 1 + Len(rest),
               \A k \in 1 .. Len(rest) : t[1 + k] = rest[k]
        PROVE  Skip(t, 1) = rest
    BY <2>2, <2>3, SkipIs
  <2>4. << o >> \o rest # << >>  BY SMT, <1>3, <2>1
  <2>5. Skip(<< o >> \o rest, 1) = rest  BY <2>1, <2>3
  <2> QED  BY <1>7, <2>1, <2>4, <2>5
<1>9. \A x : HasLegacy(b, x) <=> \E k \in 1 .. Len(p) : p[k] = x
  BY <1>4, <1>5 DEF HasLegacy
<1>10. HasLegacy(b, \h66) <=> \E k \in 1 .. Len(p) : p[k] = \h66
  BY <1>9
<1>11. HasLegacy(b, \h67) <=> \E k \in 1 .. Len(p) : p[k] = \h67
  BY <1>9
<1>12. Decode(b) = DecodeOpcode(o, rest,
                     OperandSize(o, Rex(b), HasLegacy(b, \h66)),
                     IF HasLegacy(b, \h67) THEN 4 ELSE 8)
  BY <1>8 DEF Decode
<1>13. OperandSize(o, Rex(b), HasLegacy(b, \h66))
         = OperandSize(o, rex, \E k \in 1 .. Len(p) : p[k] = \h66)
  BY <1>6, <1>10 DEF OperandSize
<1> QED  BY <1>11, <1>12, <1>13 DEF Opcode

LEMMA DecodePrefixed ==
  ASSUME NEW p \in Seq(LegacyPrefixes), NEW rex \in BOOLEAN, NEW r, IsRex(r, rex),
         NEW o \in Opcodes, NEW rest \in Bytes
  PROVE  Decode(p \o r \o << o >> \o rest) = Opcode(o, rest, p, rex)
<1>1. p \in Bytes  BY SMT DEF Bytes, LegacyPrefixes, Byte
<1>2. r \in Bytes
  <2>1. \h48 \in Byte  BY SMT DEF Byte
  <2>2. CASE rex
    <3>1. r = << \h48 >>  BY <2>2 DEF IsRex
    <3> QED  BY <2>1, <3>1, OneByte
  <2>3. CASE ~rex
    <3>1. r = << >>  BY <2>3 DEF IsRex
    <3> QED  BY <3>1, EmptyBytes
  <2> QED  BY <2>2, <2>3
<1>3. o \in Byte  BY DEF Opcodes
<1>4. \A b : PartsOf(b, p, r, o, rest) => Decode(b) = Opcode(o, rest, p, rex)
  BY <1>2, DecodeParts
<1>5. PartsOf(p \o r \o << o >> \o rest, p, r, o, rest)
  BY <1>1, <1>2, <1>3, PrefixedParts
<1> QED  BY <1>4, <1>5

(* The prefixes that iasm writes.                                          *)
LEMMA PrefixLists ==
  /\ << >> \in Seq(LegacyPrefixes) /\ << \h66 >> \in Seq(LegacyPrefixes)
  /\ << \h67 >> \in Seq(LegacyPrefixes) /\ << \h66, \h67 >> \in Seq(LegacyPrefixes)
  BY SMT DEF LegacyPrefixes

Width(o, size) == IF o \in ByteForms THEN 1 ELSE size

LEMMA OpcodeValues ==
  ASSUME NEW o, NEW rest
  PROVE  /\ Opcode(o, rest, << >>, FALSE) = DecodeOpcode(o, rest, Width(o, 4), 8)
         /\ Opcode(o, rest, << >>, TRUE) = DecodeOpcode(o, rest, Width(o, 8), 8)
         /\ Opcode(o, rest, << \h66 >>, FALSE)
              = DecodeOpcode(o, rest, Width(o, 2), 8)
         /\ Opcode(o, rest, << \h67 >>, FALSE)
              = DecodeOpcode(o, rest, Width(o, 4), 4)
         /\ Opcode(o, rest, << \h66, \h67 >>, FALSE)
              = DecodeOpcode(o, rest, Width(o, 2), 4)
<1>1. /\ ~\E k \in 1 .. Len(<< >>) : << >>[k] = \h66
      /\ ~\E k \in 1 .. Len(<< >>) : << >>[k] = \h67
  BY SMT
<1>2. /\ \E k \in 1 .. Len(<< \h66 >>) : << \h66 >>[k] = \h66
      /\ ~\E k \in 1 .. Len(<< \h66 >>) : << \h66 >>[k] = \h67
  BY SMT
<1>3. /\ ~\E k \in 1 .. Len(<< \h67 >>) : << \h67 >>[k] = \h66
      /\ \E k \in 1 .. Len(<< \h67 >>) : << \h67 >>[k] = \h67
  BY SMT
<1>4. /\ \E k \in 1 .. Len(<< \h66, \h67 >>) : << \h66, \h67 >>[k] = \h66
      /\ \E k \in 1 .. Len(<< \h66, \h67 >>) : << \h66, \h67 >>[k] = \h67
  BY SMT
<1>5. Opcode(o, rest, << >>, FALSE) = DecodeOpcode(o, rest, Width(o, 4), 8)
  BY <1>1 DEF Opcode, OperandSize, Width
<1>6. Opcode(o, rest, << >>, TRUE) = DecodeOpcode(o, rest, Width(o, 8), 8)
  BY <1>1 DEF Opcode, OperandSize, Width
<1>7. Opcode(o, rest, << \h66 >>, FALSE) = DecodeOpcode(o, rest, Width(o, 2), 8)
  BY <1>2 DEF Opcode, OperandSize, Width
<1>8. Opcode(o, rest, << \h67 >>, FALSE) = DecodeOpcode(o, rest, Width(o, 4), 4)
  BY <1>3 DEF Opcode, OperandSize, Width
<1>9. Opcode(o, rest, << \h66, \h67 >>, FALSE)
        = DecodeOpcode(o, rest, Width(o, 2), 4)
  BY <1>4 DEF Opcode, OperandSize, Width
<1> QED  BY <1>5, <1>6, <1>7, <1>8, <1>9

LEMMA DecodeBehind ==
  ASSUME NEW o \in Opcodes, NEW rest \in Bytes
  PROVE  /\ Decode(<< o >> \o rest) = DecodeOpcode(o, rest, Width(o, 4), 8)
         /\ Decode(<< \h48, o >> \o rest)
              = DecodeOpcode(o, rest, Width(o, 8), 8)
         /\ Decode(<< \h66, o >> \o rest)
              = DecodeOpcode(o, rest, Width(o, 2), 8)
         /\ Decode(<< \h67, o >> \o rest)
              = DecodeOpcode(o, rest, Width(o, 4), 4)
         /\ Decode(<< \h66, \h67, o >> \o rest)
              = DecodeOpcode(o, rest, Width(o, 2), 4)
<1>1. IsRex(<< >>, FALSE) /\ IsRex(<< \h48 >>, TRUE)
  BY DEF IsRex
<1>2. o \in Byte  BY DEF Opcodes
<1>3. /\ << >> \o << >> \o << o >> \o rest = << o >> \o rest
      /\ << >> \o << \h48 >> \o << o >> \o rest = << \h48, o >> \o rest
      /\ << \h66 >> \o << >> \o << o >> \o rest = << \h66, o >> \o rest
      /\ << \h67 >> \o << >> \o << o >> \o rest = << \h67, o >> \o rest
      /\ << \h66, \h67 >> \o << >> \o << o >> \o rest
           = << \h66, \h67, o >> \o rest
  BY SMT, <1>2 DEF Bytes
<1>4. \A p \in Seq(LegacyPrefixes) :
        Decode(p \o << >> \o << o >> \o rest) = Opcode(o, rest, p, FALSE)
  BY <1>1, DecodePrefixed
<1>5. \A p \in Seq(LegacyPrefixes) :
        Decode(p \o << \h48 >> \o << o >> \o rest) = Opcode(o, rest, p, TRUE)
  BY <1>1, DecodePrefixed
<1>6. Decode(<< o >> \o rest) = DecodeOpcode(o, rest, Width(o, 4), 8)
  BY <1>3, <1>4, PrefixLists, OpcodeValues
<1>7. Decode(<< \h48, o >> \o rest) = DecodeOpcode(o, rest, Width(o, 8), 8)
  BY <1>3, <1>5, PrefixLists, OpcodeValues
<1>8. Decode(<< \h66, o >> \o rest) = DecodeOpcode(o, rest, Width(o, 2), 8)
  BY <1>3, <1>4, PrefixLists, OpcodeValues
<1>9. Decode(<< \h67, o >> \o rest) = DecodeOpcode(o, rest, Width(o, 4), 4)
  BY <1>3, <1>4, PrefixLists, OpcodeValues
<1>10. Decode(<< \h66, \h67, o >> \o rest)
         = DecodeOpcode(o, rest, Width(o, 2), 4)
  BY <1>3, <1>4, PrefixLists, OpcodeValues
<1> QED  BY <1>6, <1>7, <1>8, <1>9, <1>10

LEMMA DecodeSized ==
  ASSUME NEW size \in {1, 2, 4, 8}, NEW rest \in Bytes,
         NEW op8 \in Opcodes, size = 1 => op8 \in ByteForms,
         NEW op \in Opcodes, op \notin ByteForms
  PROVE  Decode(Sized(size, op8, op) \o rest)
           = DecodeOpcode(IF size = 1 THEN op8 ELSE op, rest, size, 8)
<1>1. CASE size = 1
  <2>1. Sized(size, op8, op) = << op8 >>  BY SMT, <1>1 DEF Sized
  <2>2. Width(op8, 4) = 1  BY <1>1 DEF Width
  <2> QED  BY <1>1, <2>1, <2>2, DecodeBehind
<1>2. CASE size = 2
  <2>1. Sized(size, op8, op) = << \h66, op >> /\ size # 1
    BY SMT, <1>2 DEF Sized
  <2>2. Width(op, 2) = 2  BY DEF Width
  <2> QED  BY <1>2, <2>1, <2>2, DecodeBehind
<1>3. CASE size = 4
  <2>1. Sized(size, op8, op) = << op >> /\ size # 1
    BY SMT, <1>3 DEF Sized
  <2>2. Width(op, 4) = 4  BY DEF Width
  <2> QED  BY <1>3, <2>1, <2>2, DecodeBehind
<1>4. CASE size = 8
  <2>1. Sized(size, op8, op) = << \h48, op >> /\ size # 1
    BY SMT, <1>4 DEF Sized
  <2>2. Width(op, 8) = 8  BY DEF Width
  <2> QED  BY <1>4, <2>1, <2>2, DecodeBehind
<1> QED  BY <1>1, <1>2, <1>3, <1>4

-----------------------------------------------------------------------------
(* The mod-r/m byte.                                                       *)
LEMMA FirstOfTwo ==
  \A x \in Byte, t \in Bytes :
     /\ << x >> \o t \in Bytes
     /\ (<< x >> \o t)[1] = x /\ Len(<< x >> \o t) = 1 + Len(t)
     /\ << x >> \o t # << >>
     /\ \A k \in 1 .. Len(t) : (<< x >> \o t)[1 + k] = t[k]
  BY SMT DEF Bytes

LEMMA CatParts ==
  \A s, t \in Bytes :
    /\ s \o t \in Bytes /\ Len(s \o t) = Len(s) + Len(t)
    /\ \A k \in 1 .. Len(s) : (s \o t)[k] = s[k]
    /\ \A k \in 1 .. Len(t) : (s \o t)[Len(s) + k] = t[k]
  BY SMT DEF Bytes

LEMMA SkipFirst ==
  ASSUME NEW x \in Byte, NEW t \in Bytes
  PROVE  Skip(<< x >> \o t, 1) = t
<1>1. Len(t) \in Nat  BY BytesLen
<1> DEFINE b == << x >> \o t
<1>2. /\ b \in Bytes /\ Len(b) = 1 + Len(t)
      /\ \A k \in 1 .. Len(t) : b[1 + k] = t[k]
  BY FirstOfTwo
<1> HIDE DEF b
<1>3. 1 \in 0 .. Len(b)  BY SMT, <1>1, <1>2
<1>4. Skip(b, 1) = t  BY <1>2, <1>3, SkipIs
<1> QED  BY <1>4 DEF b

LEMMA SkipDisplacement ==
  ASSUME NEW x \in Byte, NEW d \in Bytes, Len(d) = 4, NEW t \in Bytes
  PROVE  /\ SubSeq(<< x >> \o (d \o t), 2, 5) = d
         /\ Skip(<< x >> \o (d \o t), 5) = t
         /\ Len(<< x >> \o (d \o t)) >= 5
<1>1. Len(t) \in Nat  BY BytesLen
<1> DEFINE e == d \o t
           b == << x >> \o e
<1>a. /\ e \in Bytes /\ Len(e) = 4 + Len(t)
      /\ \A k \in 1 .. 4 : e[k] = d[k]
      /\ \A k \in 1 .. Len(t) : e[4 + k] = t[k]
  <2>1. /\ e \in Bytes /\ Len(e) = Len(d) + Len(t)
        /\ \A k \in 1 .. Len(d) : e[k] = d[k]
        /\ \A k \in 1 .. Len(t) : e[Len(d) + k] = t[k]
    BY CatParts
  <2>2. Len(d) = 4  OBVIOUS
  <2> HIDE DEF e
  <2> QED  BY <2>1, <2>2
<1> HIDE DEF e
<1>b. /\ b \in Bytes /\ Len(b) = 1 + Len(e)
      /\ \A k \in 1 .. Len(e) : b[1 + k] = e[k]
  BY <1>a, FirstOfTwo
<1> HIDE DEF b
<1>2. /\ b \in Bytes /\ Len(b) = 5 + Len(t)
      /\ \A k \in 1 .. 4 : b[1 + k] = d[k]
      /\ \A k \in 1 .. Len(t) : b[5 + k] = t[k]
  <2>1. Len(b) = 5 + Len(t)  BY SMT, <1>1, <1>a, <1>b
  <2>2. ASSUME NEW k \in 1 .. 4 PROVE b[1 + k] = d[k]
    <3>1. k \in 1 .. Len(e)  BY SMT, <1>1, <1>a
    <3> QED  BY <1>a, <1>b, <3>1
  <2>3. ASSUME NEW k \in 1 .. Len(t) PROVE b[5 + k] = t[k]
    <3>1. 4 + k \in 1 .. Len(e) /\ 5 + k = 1 + (4 + k)  BY SMT, <1>1, <1>a
    <3>2. b[5 + k] = e[4 + k]  BY <1>b, <3>1
    <3> QED  BY <1>a, <3>2
  <2> QED  BY <1>b, <2>1, <2>2, <2>3
<1>3. SubSeq(b, 2, 5) = d  BY SMT, <1>1, <1>2 DEF Bytes
<1>4. 5 \in 0 .. Len(b)  BY SMT, <1>1, <1>2
<1>5. Skip(b, 5) = t  BY <1>2, <1>4, SkipIs
<1>6. Len(b) >= 5  BY SMT, <1>1, <1>2
<1> QED  BY <1>3, <1>5, <1>6 DEF b, e

RM(mod, reg, rm) == 64 * mod + 8 * reg + rm

LEMMA FieldBits ==
  \A mod \in 0 .. 3, r, c \in 0 .. 7 :
    /\ RM(mod, r, c) \in Byte
    /\ RM(mod, r, c) \div 64 = mod /\ RM(mod, r, c) % 8 = c
    /\ (RM(mod, r, c) \div 8) % 8 = r
  BY SMT DEF Byte, RM

LEMMA RegisterFields ==
  ASSUME NEW r \in 0 .. 7, NEW c \in 0 .. 7, NEW t \in Bytes,
         NEW o \in HasModRM, NEW size, NEW asize
  PROVE  DecodeOpcode(o, << RM(3, r, c) >> \o t, size, asize)
           = DecodeFields(o, r, RegArg(c), t, size, asize)
<1> DEFINE x == RM(3, r, c)
<1>1. x \in Byte /\ x \div 64 = 3 /\ x % 8 = c /\ (x \div 8) % 8 = r
  BY SMT, FieldBits
<1> HIDE DEF x
<1> DEFINE b == << x >> \o t
<1>2. b[1] = x /\ b # << >> /\ Skip(b, 1) = t  BY <1>1, FirstOfTwo, SkipFirst
<1> HIDE DEF b
<1>3. ModRM(b) = [reg |-> r, arg |-> RegArg(c), used |-> 1]
  BY SMT, <1>1, <1>2 DEF ModRM
<1>4. DecodeModRM(o, b, size, asize)
        = DecodeFields(o, r, RegArg(c), t, size, asize)
  BY <1>2, <1>3 DEF DecodeModRM
<1> QED  BY <1>2, <1>4 DEF DecodeOpcode, b, x

LEMMA AddressFields ==
  ASSUME NEW r \in 0 .. 7, NEW c \in 0 .. 7, c \notin {4, 5}, NEW t \in Bytes,
         NEW o \in HasModRM, NEW size, NEW asize
  PROVE  DecodeOpcode(o, << RM(0, r, c) >> \o t, size, asize)
           = DecodeFields(o, r, MemArg(c, Zeros(4)), t, size, asize)
<1> DEFINE x == RM(0, r, c)
<1>1. x \in Byte /\ x \div 64 = 0 /\ x % 8 = c /\ (x \div 8) % 8 = r
  BY SMT, FieldBits
<1> HIDE DEF x
<1> DEFINE b == << x >> \o t
<1>2. b[1] = x /\ b # << >> /\ Skip(b, 1) = t  BY <1>1, FirstOfTwo, SkipFirst
<1> HIDE DEF b
<1>3. ModRM(b) = [reg |-> r, arg |-> MemArg(c, Zeros(4)), used |-> 1]
  BY SMT, <1>1, <1>2 DEF ModRM
<1>4. DecodeModRM(o, b, size, asize)
        = DecodeFields(o, r, MemArg(c, Zeros(4)), t, size, asize)
  BY <1>2, <1>3 DEF DecodeModRM
<1> QED  BY <1>2, <1>4 DEF DecodeOpcode, b, x

LEMMA DisplacementFields ==
  ASSUME NEW r \in 0 .. 7, NEW c \in 0 .. 7, c # 4,
         NEW d \in Bytes, Len(d) = 4, NEW t \in Bytes,
         NEW o \in HasModRM, NEW size, NEW asize
  PROVE  DecodeOpcode(o, << RM(2, r, c) >> \o (d \o t), size, asize)
           = DecodeFields(o, r, MemArg(c, d), t, size, asize)
<1> DEFINE x == RM(2, r, c)
<1>1. x \in Byte /\ x \div 64 = 2 /\ x % 8 = c /\ (x \div 8) % 8 = r
  BY SMT, FieldBits
<1> HIDE DEF x
<1> DEFINE b == << x >> \o (d \o t)
<1>2. b[1] = x /\ b # << >>  BY <1>1, CatBytes, FirstOfTwo
<1>3. SubSeq(b, 2, 5) = d /\ Skip(b, 5) = t /\ Len(b) >= 5
  BY <1>1, SkipDisplacement
<1> HIDE DEF b
<1>4. ModRM(b) = [reg |-> r, arg |-> MemArg(c, d), used |-> 5]
  <2>1. /\ b[1] \div 64 = 2 /\ b[1] % 8 = c /\ (b[1] \div 8) % 8 = r
        /\ ~(2 = 3) /\ ~(2 = 0)
    BY SMT, <1>1, <1>2
  <2> QED  BY <1>3, <2>1 DEF ModRM
<1>5. DecodeModRM(o, b, size, asize)
        = DecodeFields(o, r, MemArg(c, d), t, size, asize)
  BY <1>3, <1>4 DEF DecodeModRM
<1> QED  BY <1>2, <1>5 DEF DecodeOpcode, b, x

LEMMA RelativeFields ==
  ASSUME NEW r \in 0 .. 7, NEW d \in Bytes, Len(d) = 4, NEW t \in Bytes,
         NEW o \in HasModRM, NEW size, NEW asize
  PROVE  DecodeOpcode(o, << RM(0, r, 5) >> \o (d \o t), size, asize)
           = DecodeFields(o, r, RipArg(d), t, size, asize)
<1> DEFINE x == RM(0, r, 5)
<1>1. x \in Byte /\ x \div 64 = 0 /\ x % 8 = 5 /\ (x \div 8) % 8 = r
  BY SMT, FieldBits
<1> HIDE DEF x
<1> DEFINE b == << x >> \o (d \o t)
<1>2. b[1] = x /\ b # << >>  BY <1>1, CatBytes, FirstOfTwo
<1>3. SubSeq(b, 2, 5) = d /\ Skip(b, 5) = t /\ Len(b) >= 5
  BY <1>1, SkipDisplacement
<1> HIDE DEF b
<1>4. ModRM(b) = [reg |-> r, arg |-> RipArg(d), used |-> 5]
  <2>1. /\ b[1] \div 64 = 0 /\ b[1] % 8 = 5 /\ (b[1] \div 8) % 8 = r
        /\ ~(0 = 3) /\ ~(0 = 2) /\ ~(5 \notin {4, 5})
    BY SMT, <1>1, <1>2
  <2> QED  BY <1>3, <2>1 DEF ModRM
<1>5. DecodeModRM(o, b, size, asize)
        = DecodeFields(o, r, RipArg(d), t, size, asize)
  BY <1>3, <1>4 DEF DecodeModRM
<1> QED  BY <1>2, <1>5 DEF DecodeOpcode, b, x

-----------------------------------------------------------------------------
(* Opcodes and their names.                                                *)
LEMMA OpcodesWithForms ==
  /\ \A o \in {\h00, \h28, \h38, \h04, \h2C, \h3C, \h80, \h88, \h8A, \hC6,
                \hF6, \hFE} \cup \hB0 .. \hB7 : o \in Opcodes /\ o \in ByteForms
  /\ \A o \in {\h01, \h29, \h39, \h05, \h2D, \h3D, \h81, \h89, \h8B, \h8D,
                \hC7, \hF7, \hFF} \cup \hB8 .. \hBF :
       o \in Opcodes /\ o \notin ByteForms
  /\ \A o \in {\h0F, \hE8, \hE9, \hC3, \hC2, \hCD, \hF4, \h90} :
       o \in Opcodes /\ o \notin ByteForms /\ o \notin HasModRM
  BY SMT DEF Opcodes, ByteForms, LegacyPrefixes, Byte, HasModRM, ToRM, ToReg,
             GroupOpcodes

LEMMA OpcodesPlain ==
  \A o \in {\h04, \h2C, \h3C, \h05, \h2D, \h3D} \cup \hB0 .. \hBF : o \notin HasModRM
  BY SMT DEF HasModRM, ToRM, ToReg, GroupOpcodes

LEMMA DirectNames ==
  ASSUME NEW reg
  PROVE  /\ \A o \in {\h00, \h01} : NameOf(o, reg) = "ADD"
         /\ \A o \in {\h28, \h29} : NameOf(o, reg) = "SUB"
         /\ \A o \in {\h38, \h39} : NameOf(o, reg) = "CMP"
         /\ \A o \in {\h88, \h89, \h8A, \h8B} : NameOf(o, reg) = "MOV"
         /\ NameOf(\h8D, reg) = "LEA"
<1>1. ASSUME NEW o \in {\h00, \h01} PROVE NameOf(o, reg) = "ADD"
  BY SMT, <1>1 DEF NameOf, AluNames
<1>2. ASSUME NEW o \in {\h28, \h29} PROVE NameOf(o, reg) = "SUB"
  BY SMT, <1>2 DEF NameOf, AluNames
<1>3. ASSUME NEW o \in {\h38, \h39} PROVE NameOf(o, reg) = "CMP"
  BY SMT, <1>3 DEF NameOf, AluNames
<1>4. ASSUME NEW o \in {\h88, \h89, \h8A, \h8B} PROVE NameOf(o, reg) = "MOV"
  BY SMT, <1>4 DEF NameOf
<1>5. NameOf(\h8D, reg) = "LEA"
  BY SMT DEF NameOf
<1> QED  BY <1>1, <1>2, <1>3, <1>4, <1>5

LEMMA GroupsUnique ==
  \A s, t \in Groups : s[1] = t[1] /\ s[2] = t[2] => s = t
  BY SMT DEF Groups

LEMMA GroupNames ==
  ASSUME NEW t \in Groups, NEW o \in {t[1], t[1] + 1}, o # \hFE \/ t[2] <= 1
  PROVE  NameOf(o, t[2]) = t[3]
<1>1. /\ t[1] \in {\h80, \hFE, \hF6, \hC6} /\ t[2] \in Nat
      /\ o - (o % 2) = t[1]
      /\ o \notin {\h88, \h89, \h8A, \h8B} /\ o # \h8D /\ ~(o < \h40)
  BY SMT DEF Groups
<1> DEFINE g == {u \in Groups : u[1] = o - (o % 2) /\ u[2] = t[2]}
<1>2. t \in g /\ \A u \in g : u = t
  BY <1>1, GroupsUnique
<1>3. (CHOOSE u \in g : TRUE) = t  BY <1>2
<1>4. g # {} /\ ~(o = \hFE /\ t[2] > 1)
  BY SMT, <1>1, <1>2
<1> HIDE DEF g
<1>5. NameOf(o, t[2]) = IF g = {} \/ (o = \hFE /\ t[2] > 1) THEN "undecodable"
                        ELSE (CHOOSE u \in g : TRUE)[3]
  BY Zenon, <1>1 DEF NameOf, g
<1> QED  BY <1>3, <1>4, <1>5

-----------------------------------------------------------------------------
(* Instructions with a mod-r/m byte.                                       *)
LEMMA FieldsDecoded ==
  ASSUME NEW o, NEW reg, NEW arg, NEW imm, NEW size, NEW asize,
         NEW name, name = NameOf(o, reg), name # "undecodable", arg # NoArg,
         Len(imm) = IF o \in HasImm THEN ImmWidth(size) ELSE 0,
         name \notin {"CALL", "JMP"} \/ size # 4
  PROVE  DecodeFields(o, reg, arg, imm, size, asize)
           = Insn(name, size, asize, Arguments(o, reg, arg, imm, size))
  BY DEF DecodeFields

LEMMA ArgKinds ==
  /\ \A c : RegArg(c) # NoArg
  /\ \A c, d : MemArg(c, d) # NoArg
  /\ \A d : RipArg(d) # NoArg
  BY SMT DEF RegArg, MemArg, RipArg, NoArg, Arg

LEMMA OpcodeKinds ==
  /\ \A o \in ToRM : o \in HasModRM /\ o \notin HasImm
  /\ \A o \in ToReg : o \in HasModRM /\ o \notin HasImm /\ o \notin ToRM
  /\ \A o \in HasImm : o \in HasModRM /\ o \notin ToReg /\ o \notin ToRM
  /\ \A o \in {\hFE, \hFF, \hF6, \hF7} :
       o \in HasModRM /\ o \notin ToReg /\ o \notin ToRM /\ o \notin HasImm
  BY SMT DEF HasModRM, ToRM, ToReg, GroupOpcodes, HasImm

LEMMA ArgumentsAre ==
  ASSUME NEW o, NEW reg, NEW arg, NEW imm, NEW size
  PROVE  /\ o \in ToRM => Arguments(o, reg, arg, imm, size) = << arg, RegArg(reg) >>
         /\ o \in ToReg => Arguments(o, reg, arg, imm, size) = << RegArg(reg), arg >>
         /\ o \in HasImm => Arguments(o, reg, arg, imm, size)
                              = << arg, ImmArg(SignExtended(imm, size)) >>
         /\ o \in {\hFE, \hFF, \hF6, \hF7} =>
              Arguments(o, reg, arg, imm, size) = << arg >>
  BY OpcodeKinds DEF Arguments

LEMMA CatEmpty == \A t \in Bytes : t \o << >> = t
  BY SMT DEF Bytes

LEMMA CatAssoc == \A s, t, u \in Bytes : (s \o t) \o u = s \o (t \o u)
  BY SMT DEF Bytes

Low(r) == r \in Register /\ r.code \in 0 .. 7

LEMMA LowParts ==
  ASSUME NEW r, Low(r)
  PROVE  r.code \in 0 .. 7 /\ r.code \in Nat /\ r.size \in {1, 2, 4, 8}
  BY SMT DEF Low, Register

LEMMA MagicIs ==
  ASSUME NEW d, NEW s, Low(d), Low(s)
  PROVE  /\ TwoRegisterMagic(d, s) = 8 * s.code + d.code
         /\ (\hC0 + TwoRegisterMagic(d, s)) % 256 = RM(3, s.code, d.code)
  BY SMT, LowParts DEF TwoRegisterMagic, RM

(* Two registers: the second operand is in the reg field.                  *)
PairByte(d, s) == (\hC0 + TwoRegisterMagic(d, s)) % 256

LEMMA RegRegDecodes ==
  ASSUME NEW d, NEW s, Low(d), Low(s),
         NEW o8 \in Opcodes, o8 \in ByteForms, o8 \in ToRM,
         NEW o \in Opcodes, o \notin ByteForms, o \in ToRM,
         NEW name, name \notin {"CALL", "JMP", "undecodable"},
         \A reg : NameOf(o8, reg) = name /\ NameOf(o, reg) = name
  PROVE  Decode(Sized(d.size, o8, o) \o << PairByte(d, s) >>)
           = Insn(name, d.size, 8, << RegArg(d.code), RegArg(s.code) >>)
<1> DEFINE x == RM(3, s.code, d.code)
           op == IF d.size = 1 THEN o8 ELSE o
<1>1. d.code \in 0 .. 7 /\ s.code \in 0 .. 7 /\ d.size \in {1, 2, 4, 8}
  BY LowParts
<1>2. x \in Byte  BY SMT, <1>1, FieldBits
<1>3. op \in ToRM /\ op \in HasModRM /\ op \notin HasImm
  BY OpcodeKinds
<1>4. \A reg : NameOf(op, reg) = name  OBVIOUS
<1>5. << x >> \in Bytes /\ << x >> \o << >> = << x >>
  BY <1>2, OneByte, CatEmpty
<1>6. Decode(Sized(d.size, o8, o) \o << x >>) = DecodeOpcode(op, << x >>, d.size, 8)
  BY <1>1, <1>5, DecodeSized
<1> HIDE DEF op
<1>7. DecodeOpcode(op, << x >> \o << >>, d.size, 8)
        = DecodeFields(op, s.code, RegArg(d.code), << >>, d.size, 8)
  <2>1. \A t \in Bytes : DecodeOpcode(op, << x >> \o t, d.size, 8)
                          = DecodeFields(op, s.code, RegArg(d.code), t, d.size, 8)
    BY <1>1, <1>3, RegisterFields
  <2> QED  BY <2>1, EmptyBytes
<1>8. DecodeFields(op, s.code, RegArg(d.code), << >>, d.size, 8)
        = Insn(name, d.size, 8,
               Arguments(op, s.code, RegArg(d.code), << >>, d.size))
  <2>1. Len(<< >>) = 0  BY SMT
  <2>2. Len(<< >>) = IF op \in HasImm THEN ImmWidth(d.size) ELSE 0
    BY <1>3, <2>1
  <2> QED  BY <1>4, <2>2, ArgKinds, FieldsDecoded
<1>9. Arguments(op, s.code, RegArg(d.code), << >>, d.size)
        = << RegArg(d.code), RegArg(s.code) >>
  BY <1>3, ArgumentsAre
<1>10. PairByte(d, s) = x  BY MagicIs DEF PairByte
<1> QED  BY <1>5, <1>6, <1>7, <1>8, <1>9, <1>10

(* One register, with an opcode extension in the reg field.                *)
LEMMA GroupRegDecodes ==
  ASSUME NEW r, Low(r), NEW o8 \in Opcodes, r.size = 1 => o8 \in ByteForms,
         NEW o \in Opcodes, o \notin ByteForms,
         o8 \in {\hFE, \hFF, \hF6, \hF7}, o \in {\hFE, \hFF, \hF6, \hF7},
         NEW reg \in 0 .. 7, NEW x \in Byte, x = RM(3, reg, r.code),
         NEW name, name # "undecodable", name \notin {"CALL", "JMP"} \/ r.size # 4,
         r.size = 1 => NameOf(o8, reg) = name, NameOf(o, reg) = name
  PROVE  Decode(Sized(r.size, o8, o) \o << x >>)
           = Insn(name, r.size, 8, << RegArg(r.code) >>)
<1> DEFINE op == IF r.size = 1 THEN o8 ELSE o
<1>1. r.code \in 0 .. 7 /\ r.size \in {1, 2, 4, 8}
  BY LowParts
<1>3. op \in {\hFE, \hFF, \hF6, \hF7} /\ NameOf(op, reg) = name
  OBVIOUS
<1>5. << x >> \in Bytes /\ << x >> \o << >> = << x >>
  BY OneByte, CatEmpty
<1>6. Decode(Sized(r.size, o8, o) \o << x >>) = DecodeOpcode(op, << x >>, r.size, 8)
  BY <1>1, <1>5, DecodeSized
<1> HIDE DEF op
<1>4. op \in HasModRM /\ op \notin HasImm
  BY <1>3, OpcodeKinds
<1>7. DecodeOpcode(op, << x >> \o << >>, r.size, 8)
        = DecodeFields(op, reg, RegArg(r.code), << >>, r.size, 8)
  <2>1. \A t \in Bytes : DecodeOpcode(op, << x >> \o t, r.size, 8)
                          = DecodeFields(op, reg, RegArg(r.code), t, r.size, 8)
    BY <1>1, <1>4, RegisterFields
  <2> QED  BY <2>1, EmptyBytes
<1>8. DecodeFields(op, reg, RegArg(r.code), << >>, r.size, 8)
        = Insn(name, r.size, 8, Arguments(op, reg, RegArg(r.code), << >>, r.size))
  <2>1. Len(<< >>) = 0  BY SMT
  <2>2. Len(<< >>) = IF op \in HasImm THEN ImmWidth(r.size) ELSE 0
    BY <1>4, <2>1
  <2> QED  BY <1>3, <2>2, ArgKinds, FieldsDecoded
<1>9. Arguments(op, reg, RegArg(r.code), << >>, r.size) = << RegArg(r.code) >>
  BY <1>3, ArgumentsAre
<1> QED  BY <1>5, <1>6, <1>7, <1>8, <1>9

-----------------------------------------------------------------------------
(* Immediates.                                                             *)
LEMMA LowBytesParts ==
  ASSUME NEW v \in Immediate, NEW n \in 1 .. 8
  PROVE  /\ LowBytes(v, n) \in Bytes /\ Len(LowBytes(v, n)) = n
         /\ \A k \in 1 .. n : LowBytes(v, n)[k] = v[k]
         /\ Truncated(v, n) = LowBytes(v, n)
<1>1. LowBytes(v, n) \in Bytes /\ Len(LowBytes(v, n)) = n
  BY SMT DEF LowBytes, Immediate, Bytes
<1>2. \A k \in 1 .. n : LowBytes(v, n)[k] = v[k]  BY DEF LowBytes
<1>3. v \in Bytes /\ Len(v) = 8
  <2>1. LowBytes(v, 8) \in Bytes /\ Len(LowBytes(v, 8)) = 8
    BY SMT DEF LowBytes, Immediate, Bytes
  <2>2. LowBytes(v, 8) = v  BY SMT DEF LowBytes, Immediate
  <2> QED  BY <2>1, <2>2
<1>4. Truncated(v, n) = LowBytes(v, n)
  BY SMT, <1>3 DEF Truncated, LowBytes, Bytes
<1> QED  BY <1>1, <1>2, <1>4

LEMMA SignExtendedSame ==
  ASSUME NEW v \in Immediate, NEW n \in 1 .. 8
  PROVE  SignExtended(LowBytes(v, n), n) = LowBytes(v, n)
<1> DEFINE low == LowBytes(v, n)
<1>1. Len(low) = n /\ \A k \in 1 .. n : low[k] = v[k]  BY LowBytesParts
<1>2. low = [k \in 1 .. n |-> v[k]]  BY DEF LowBytes
<1> HIDE DEF low
<1>3. SignExtended(low, n) = [k \in 1 .. n |-> v[k]]
  BY SMT, <1>1 DEF SignExtended
<1> QED  BY <1>2, <1>3 DEF low

LEMMA SignExtendedWide ==
  ASSUME NEW v \in Immediate, ~Exceeds(v, 4), v[4] < 128
  PROVE  SignExtended(LowBytes(v, 4), 8) = LowBytes(v, 8)
<1> DEFINE low == LowBytes(v, 4)
<1>1. Len(low) = 4 /\ \A k \in 1 .. 4 : low[k] = v[k]
  BY SMT, LowBytesParts
<1> HIDE DEF low
<1>2. \A k \in 5 .. 8 : v[k] = 0  BY SMT DEF Exceeds
<1>3. v[4] \in 0 .. 255  BY SMT DEF Immediate, Byte
<1>4. SignExtended(low, 8) = [k \in 1 .. 8 |-> v[k]]
  BY SMT, <1>1, <1>2, <1>3 DEF SignExtended
<1> QED  BY <1>4 DEF low, LowBytes

LEMMA SignExtendedCapped ==
  ASSUME NEW v \in Immediate, NEW size \in {1, 2, 4, 8},
         ~Exceeds(v, CapOf(size)), size = 8 => v[4] < 128
  PROVE  /\ SignExtended(LowBytes(v, CapOf(size)), size) = Truncated(v, size)
         /\ Len(LowBytes(v, CapOf(size))) = ImmWidth(size)
         /\ LowBytes(v, CapOf(size)) \in Bytes
<1>1. CapOf(size) \in 1 .. 8 /\ CapOf(size) = ImmWidth(size) /\ size \in 1 .. 8
  BY SMT DEF CapOf, ImmWidth
<1>2. SignExtended(LowBytes(v, CapOf(size)), size) = LowBytes(v, size)
  <2>1. CASE size = 8
    <3>1. CapOf(size) = 4  BY <2>1 DEF CapOf
    <3>2. ~Exceeds(v, 4) /\ v[4] < 128  BY <2>1, <3>1
    <3> QED  BY <2>1, <3>1, <3>2, SignExtendedWide
  <2>2. CASE size # 8
    <3>1. CapOf(size) = size  BY <2>2 DEF CapOf
    <3> QED  BY <1>1, <3>1, SignExtendedSame
  <2> QED  BY <2>1, <2>2
<1> QED  BY <1>1, <1>2, LowBytesParts

-----------------------------------------------------------------------------
(* ADD, SUB and CMP of a register and an immediate: a short form for the   *)
(* accumulator, group 80 for every other register.                         *)
AluRows == { << \h04, \h05, \hC0, 0, "ADD" >>, << \h2C, \h2D, \hE8, 5, "SUB" >>,
             << \h3C, \h3D, \hF8, 7, "CMP" >> }

LEMMA AluRowParts ==
  ASSUME NEW t \in AluRows
  PROVE  /\ t[1] \in Opcodes /\ t[1] \in ByteForms /\ t[1] \notin HasModRM
         /\ t[2] \in Opcodes /\ t[2] \notin ByteForms /\ t[2] \notin HasModRM
         /\ t[4] \in 0 .. 7
         /\ \A c \in 0 .. 7 : (t[3] + c) % 256 = RM(3, t[4], c)
         /\ \A o \in {\h80, \h81} : NameOf(o, t[4]) = t[5]
         /\ t[5] \notin {"CALL", "JMP", "undecodable"}
         /\ \A o \in {t[1], t[2]} : \/ o \in {\h04, \h05} /\ t[5] = "ADD"
                                    \/ o \in {\h2C, \h2D} /\ t[5] = "SUB"
                                    \/ o \in {\h3C, \h3D} /\ t[5] = "CMP"
<1>1. t[1] \in {\h04, \h2C, \h3C} /\ t[2] \in {\h05, \h2D, \h3D}
  BY SMT DEF AluRows
<1>2. t[4] \in 0 .. 7 /\ \A c \in 0 .. 7 : (t[3] + c) % 256 = RM(3, t[4], c)
  BY SMT DEF AluRows, RM
<1>3. << \h80, t[4], t[5] >> \in Groups
  BY SMT DEF AluRows, Groups
<1>4. ASSUME NEW o \in {\h80, \h81} PROVE NameOf(o, t[4]) = t[5]
  <2>1. o # \hFE  BY SMT, <1>4
  <2> DEFINE u == << \h80, t[4], t[5] >>
  <2>2. u[1] = \h80 /\ u[2] = t[4] /\ u[3] = t[5] /\ o \in {u[1], u[1] + 1}
    BY SMT, <1>4
  <2> HIDE DEF u
  <2> QED  BY <1>3, <2>1, <2>2, GroupNames DEF u
<1>5. t[5] \notin {"CALL", "JMP", "undecodable"}
  BY SMT DEF AluRows
<1>6. \A o \in {t[1], t[2]} : \/ o \in {\h04, \h05} /\ t[5] = "ADD"
                              \/ o \in {\h2C, \h2D} /\ t[5] = "SUB"
                              \/ o \in {\h3C, \h3D} /\ t[5] = "CMP"
  BY SMT DEF AluRows
<1>7. /\ t[1] \in Opcodes /\ t[1] \in ByteForms /\ t[1] \notin HasModRM
      /\ t[2] \in Opcodes /\ t[2] \notin ByteForms /\ t[2] \notin HasModRM
  BY SMT, <1>1, OpcodesWithForms, OpcodesPlain
<1> QED  BY <1>2, <1>4, <1>5, <1>6, <1>7

LEMMA AccumulatorDecodes ==
  ASSUME NEW t \in AluRows, NEW o \in {t[1], t[2]}, NEW rest, NEW size,
         Len(rest) = ImmWidth(size)
  PROVE  DecodeOpcode(o, rest, size, 8)
           = Insn(t[5], size, 8, << RegArg(0), ImmArg(SignExtended(rest, size)) >>)
<1> DEFINE Args == << RegArg(0), ImmArg(SignExtended(rest, size)) >>
<1>1. o = \h04 => DecodePlain(o, rest, size, 8) = Insn("ADD", size, 8, Args)
  BY SMT DEF DecodePlain, AluNames
<1>2. o = \h05 => DecodePlain(o, rest, size, 8) = Insn("ADD", size, 8, Args)
  BY SMT DEF DecodePlain, AluNames
<1>3. o = \h2C => DecodePlain(o, rest, size, 8) = Insn("SUB", size, 8, Args)
  BY SMT DEF DecodePlain, AluNames
<1>4. o = \h2D => DecodePlain(o, rest, size, 8) = Insn("SUB", size, 8, Args)
  BY SMT DEF DecodePlain, AluNames
<1>5. o = \h3C => DecodePlain(o, rest, size, 8) = Insn("CMP", size, 8, Args)
  BY SMT DEF DecodePlain, AluNames
<1>6. o = \h3D => DecodePlain(o, rest, size, 8) = Insn("CMP", size, 8, Args)
  BY SMT DEF DecodePlain, AluNames
<1> HIDE DEF Args
<1>7. DecodePlain(o, rest, size, 8) = Insn(t[5], size, 8, Args)
  BY <1>1, <1>2, <1>3, <1>4, <1>5, <1>6, AluRowParts
<1>8. o \notin HasModRM  BY AluRowParts
<1> QED  BY <1>7, <1>8 DEF DecodeOpcode, Args

(* What group 80 does to a register.                                       *)
LEMMA GroupImmDecodes ==
  ASSUME NEW t \in AluRows, NEW d, Low(d), NEW low \in Bytes,
         Len(low) = ImmWidth(d.size)
  PROVE  Decode(Sized(d.size, \h80, \h81) \o (<< RM(3, t[4], d.code) >> \o low))
           = Insn(t[5], d.size, 8,
                  << RegArg(d.code), ImmArg(SignExtended(low, d.size)) >>)
<1> DEFINE x == RM(3, t[4], d.code)
           op == IF d.size = 1 THEN \h80 ELSE \h81
<1>1. d.code \in 0 .. 7 /\ d.size \in {1, 2, 4, 8} /\ t[4] \in 0 .. 7
  BY LowParts, AluRowParts
<1>2. x \in Byte  BY SMT, <1>1, FieldBits
<1>3. op \in {\h80, \h81} /\ op \in HasImm /\ NameOf(op, t[4]) = t[5]
  <2>1. \h80 \in HasImm /\ \h81 \in HasImm  BY SMT DEF HasImm
  <2> QED  BY <2>1, AluRowParts
<1>4. /\ \h80 \in Opcodes /\ \h80 \in ByteForms
      /\ \h81 \in Opcodes /\ \h81 \notin ByteForms
  BY SMT, OpcodesWithForms
<1>5. << x >> \o low \in Bytes  BY <1>2, OneByte, CatBytes
<1> HIDE DEF x
<1>6. Decode(Sized(d.size, \h80, \h81) \o (<< x >> \o low))
        = DecodeOpcode(op, << x >> \o low, d.size, 8)
  BY <1>1, <1>4, <1>5, DecodeSized
<1> HIDE DEF op
<1>7. DecodeOpcode(op, << x >> \o low, d.size, 8)
        = DecodeFields(op, t[4], RegArg(d.code), low, d.size, 8)
  <2>1. op \in HasModRM  BY <1>3, OpcodeKinds
  <2>2. ASSUME NEW r, r \in 0 .. 7
        PROVE  DecodeOpcode(op, << RM(3, r, d.code) >> \o low, d.size, 8)
                 = DecodeFields(op, r, RegArg(d.code), low, d.size, 8)
    BY <1>1, <2>1, <2>2, RegisterFields
  <2> QED  BY <1>1, <2>2 DEF x
<1>8. DecodeFields(op, t[4], RegArg(d.code), low, d.size, 8)
        = Insn(t[5], d.size, 8, Arguments(op, t[4], RegArg(d.code), low, d.size))
  <2>1. Len(low) = IF op \in HasImm THEN ImmWidth(d.size) ELSE 0
    BY <1>3
  <2>2. t[5] # "undecodable" /\ t[5] \notin {"CALL", "JMP"}  BY AluRowParts
  <2> QED  BY <1>3, <2>1, <2>2, ArgKinds, FieldsDecoded
<1>9. Arguments(op, t[4], RegArg(d.code), low, d.size)
        = << RegArg(d.code), ImmArg(SignExtended(low, d.size)) >>
  BY <1>3, ArgumentsAre
<1> QED  BY <1>6, <1>7, <1>8, <1>9 DEF x

LEMMA RegImmDecodes ==
  ASSUME NEW t \in AluRows, NEW d, Low(d), NEW v \in Immediate,
         ~Exceeds(v, CapOf(d.size)), d.size = 8 => v[4] < 128
  PROVE  Decode(AluOpcode(d, t[1], t[2], t[3]) \o LowBytes(v, CapOf(d.size)))
           = Insn(t[5], d.size, 8,
                  << RegArg(d.code), ImmArg(Truncated(v, d.size)) >>)
<1> DEFINE low == LowBytes(v, CapOf(d.size))
<1>1. d.code \in 0 .. 7 /\ d.size \in {1, 2, 4, 8}  BY LowParts
<1>2. /\ SignExtended(low, d.size) = Truncated(v, d.size)
      /\ Len(low) = ImmWidth(d.size) /\ low \in Bytes
  BY <1>1, SignExtendedCapped
<1> HIDE DEF low
<1>3. CASE d.code = 0
  <2>1. AluOpcode(d, t[1], t[2], t[3]) = Sized(d.size, t[1], t[2])
    BY <1>3 DEF AluOpcode
  <2> DEFINE o == IF d.size = 1 THEN t[1] ELSE t[2]
  <2>2. Decode(Sized(d.size, t[1], t[2]) \o low) = DecodeOpcode(o, low, d.size, 8)
    BY <1>1, <1>2, AluRowParts, DecodeSized
  <2>3. DecodeOpcode(o, low, d.size, 8)
          = Insn(t[5], d.size, 8, << RegArg(0), ImmArg(SignExtended(low, d.size)) >>)
    BY <1>2, AccumulatorDecodes
  <2> QED  BY <1>2, <1>3, <2>1, <2>2, <2>3 DEF low
<1>4. CASE d.code # 0
  <2> DEFINE x == RM(3, t[4], d.code)
  <2>1. (t[3] + d.code) % 256 = x  BY <1>1, AluRowParts
  <2>2. AluOpcode(d, t[1], t[2], t[3]) = Sized(d.size, \h80, \h81) \o << x >>
    BY <1>4, <2>1 DEF AluOpcode
  <2>3. Sized(d.size, \h80, \h81) \in Bytes
    <3>1. \h80 \in Byte /\ \h81 \in Byte  BY SMT DEF Byte
    <3> QED  BY <3>1, SizedBytes
  <2>4. << x >> \in Bytes
    <3>1. t[4] \in 0 .. 7  BY AluRowParts
    <3>2. x \in Byte  BY SMT, <1>1, <3>1, FieldBits
    <3> QED  BY <3>2, OneByte
  <2>5. (Sized(d.size, \h80, \h81) \o << x >>) \o low
          = Sized(d.size, \h80, \h81) \o (<< x >> \o low)
    BY <1>2, <2>3, <2>4, CatAssoc
  <2> QED  BY <1>2, <2>2, <2>5, GroupImmDecodes DEF low
<1> QED  BY <1>3, <1>4

-----------------------------------------------------------------------------
(* What a line asks for, by the number of its operands.                    *)
LEMMA TwoOperands ==
  ASSUME NEW ops \in Operands, Len(ops) = 2, NEW size, NEW address
  PROVE  /\ ops[1] \in Operand /\ ops[2] \in Operand
         /\ DOMAIN ops = {1, 2}
         /\ [k \in DOMAIN ops |-> Argument(ops[k], size, address)]
              = << Argument(ops[1], size, address), Argument(ops[2], size, address) >>
<1>1. ops[1] \in Operand /\ ops[2] \in Operand /\ DOMAIN ops = {1, 2}
  BY SMT DEF Operands
<1> DEFINE F(k) == Argument(ops[k], size, address)
<1>2. [k \in {1, 2} |-> F(k)] = << F(1), F(2) >>
  <2> HIDE DEF F
  <2> QED  BY SMT
<1> QED  BY <1>1, <1>2

LEMMA OneOperand ==
  ASSUME NEW ops \in Operands, Len(ops) = 1, NEW size, NEW address
  PROVE  /\ ops[1] \in Operand /\ DOMAIN ops = {1}
         /\ [k \in DOMAIN ops |-> Argument(ops[k], size, address)]
              = << Argument(ops[1], size, address) >>
<1>1. ops[1] \in Operand /\ DOMAIN ops = {1}
  BY SMT DEF Operands
<1> DEFINE F(k) == Argument(ops[k], size, address)
<1>2. [k \in {1} |-> F(k)] = << F(1) >>
  <2> HIDE DEF F
  <2> QED  BY SMT
<1> QED  BY <1>1, <1>2

LEMMA NoOperands ==
  ASSUME NEW ops \in Operands, Len(ops) = 0, NEW size, NEW address
  PROVE  /\ ops = << >> /\ DOMAIN ops = {}
         /\ [k \in DOMAIN ops |-> Argument(ops[k], size, address)] = << >>
<1>1. ops = << >> /\ DOMAIN ops = {}  BY SMT DEF Operands
<1> DEFINE F(k) == Argument(ops[k], size, address)
<1>2. [k \in {} |-> F(k)] = << >>
  <2> HIDE DEF F
  <2> QED  BY SMT
<1> QED  BY <1>1, <1>2

LEMMA MeaningIs ==
  ASSUME NEW line, line.mnemonic \notin Jumps, NEW address
  PROVE  Meaning(line, address)
           = Insn(line.mnemonic,
                  IF line.mnemonic \in {"RET", "INT"} THEN 8 ELSE SizeOf(line),
                  AddressSize(line.operands),
                  [k \in DOMAIN line.operands |->
                     Argument(line.operands[k], SizeOf(line), address)])
  BY DEF Meaning

(* The kinds of operands exclude each other.                               *)
LEMMA Kinds ==
  ASSUME NEW op
  PROVE  /\ IsReg(op) => ~IsMem(op) /\ ~IsImm(op) /\ ~IsLabel(op)
         /\ IsMem(op) => ~IsReg(op) /\ ~IsImm(op) /\ ~IsLabel(op)
         /\ IsImm(op) => ~IsReg(op) /\ ~IsMem(op) /\ ~IsLabel(op)
         /\ IsLabel(op) => ~IsReg(op) /\ ~IsMem(op) /\ ~IsImm(op)
<1>1. op.type = "REGISTER" => op.type # "IMMEDIATE" /\ op.type # "LABEL"
  BY SMT
<1>2. op.type = "IMMEDIATE" => op.type # "LABEL"
  BY SMT
<1> QED  BY <1>1, <1>2 DEF IsReg, IsMem, IsImm, IsLabel

LEMMA ArgumentIs ==
  ASSUME NEW op, NEW size, NEW address
  PROVE  /\ IsReg(op) => Argument(op, size, address) = RegArg(op.value.code)
         /\ IsMem(op) => Argument(op, size, address)
                          = MemArg(op.value.code, LE4(op.displacement))
         /\ IsImm(op) => Argument(op, size, address) = ImmArg(Truncated(op.value, size))
         /\ IsLabel(op) /\ op.indirect => Argument(op, size, address) = RipArg(address)
  BY Kinds DEF Argument

(* A register gives its size to the instruction.                           *)
LEMMA SizeFromOne ==
  ASSUME NEW line, Len(line.operands) = 1, DOMAIN line.operands = {1},
         line.mnemonic \notin {"NOP", "HLT", "SYSCALL", "RET", "INT"}
  PROVE  /\ IsReg(line.operands[1]) => SizeOf(line) = line.operands[1].value.size
         /\ IsMem(line.operands[1]) /\ line.mnemonic = "INC"
              => SizeOf(line) = line.operands[1].value.size
         /\ IsReg(line.operands[1]) => AddressSize(line.operands) = 8
         /\ IsMem(line.operands[1])
              => AddressSize(line.operands) = line.operands[1].value.size
<1> DEFINE ops == line.operands
<1>1. ASSUME IsReg(ops[1]) PROVE RegisterSizes(ops) = {ops[1].value.size}
  BY <1>1 DEF RegisterSizes
<1>2. ASSUME IsReg(ops[1]) PROVE SizeOf(line) = ops[1].value.size
  BY <1>1, <1>2 DEF SizeOf
<1>3. ASSUME IsMem(ops[1]) PROVE RegisterSizes(ops) = {}
  BY <1>3, Kinds DEF RegisterSizes
<1>4. ASSUME IsMem(ops[1]), line.mnemonic = "INC"
      PROVE  SizeOf(line) = ops[1].value.size
  BY <1>3, <1>4 DEF SizeOf
<1>5. ASSUME IsReg(ops[1]) PROVE AddressSize(ops) = 8
  <2>1. Len(ops) # 2  BY SMT
  <2> QED  BY <1>5, <2>1, Kinds DEF AddressSize
<1>6. ASSUME IsMem(ops[1]) PROVE AddressSize(ops) = ops[1].value.size
  <2>1. {ops[k] : k \in DOMAIN ops} = {ops[1]}  OBVIOUS
  <2>2. (CHOOSE op \in {ops[1]} : IsMem(op)) = ops[1]  BY <1>6
  <2> QED  BY <1>6, <2>1, <2>2 DEF AddressSize
<1> QED  BY <1>2, <1>4, <1>5, <1>6

(* One register, or two of the same size, and at most one address.         *)
LEMMA SizeFromTwo ==
  ASSUME NEW line, Len(line.operands) = 2, DOMAIN line.operands = {1, 2},
         line.mnemonic \notin {"NOP", "HLT", "SYSCALL", "RET", "INT"},
         IsReg(line.operands[1]),
         IsReg(line.operands[2]) => SameSizes(line)
  PROVE  /\ SizeOf(line) = line.operands[1].value.size
         /\ AddressSize(line.operands)
              = IF IsMem(line.operands[2]) THEN line.operands[2].value.size
                ELSE IF IsLabel(line.operands[2]) THEN line.operands[1].value.size
                ELSE 8
<1> DEFINE ops == line.operands
<1>1. RegisterSizes(ops) = {ops[1].value.size}
  BY DEF RegisterSizes, SameSizes
<1>2. SizeOf(line) = ops[1].value.size
  BY <1>1 DEF SizeOf
<1>3. ASSUME IsMem(ops[2]) PROVE AddressSize(ops) = ops[2].value.size
  <2>1. {ops[k] : k \in DOMAIN ops} = {ops[1], ops[2]}  OBVIOUS
  <2>2. ~IsMem(ops[1])  BY Kinds
  <2>3. (CHOOSE op \in {ops[1], ops[2]} : IsMem(op)) = ops[2]  BY <1>3, <2>2
  <2> QED  BY <1>3, <2>1, <2>3 DEF AddressSize
<1>4. ASSUME ~IsMem(ops[2])
      PROVE  AddressSize(ops) = IF IsLabel(ops[2]) THEN ops[1].value.size ELSE 8
  BY <1>4, Kinds DEF AddressSize
<1> QED  BY <1>2, <1>3, <1>4

-----------------------------------------------------------------------------
(* What an emission puts into the segment, its field filled with Marker,   *)
(* and whether that is the instruction that the line asks for.             *)
AddressOf(e) == IF e.ref = NoRef THEN << >> ELSE Marker(PatchWidth(e.ref.type))
Filled(e) == e.head \o AddressOf(e)
Right(line, e) == Decode(Filled(e)) = Meaning(line, AddressOf(e))

LEMMA EmitFilled ==
  ASSUME NEW b \in Bytes
  PROVE  Filled(Emit(b)) = b /\ AddressOf(Emit(b)) = << >>
<1>1. AddressOf(Emit(b)) = << >> /\ Emit(b).head = b
  BY DEF AddressOf, Emit
<1> QED  BY <1>1, CatEmpty DEF Filled

LEMMA EmitRight ==
  ASSUME NEW line, NEW b \in Bytes, Decode(b) = Meaning(line, << >>)
  PROVE  Right(line, Emit(b))
  BY EmitFilled DEF Right

LEMMA RefRight ==
  ASSUME NEW line, NEW b, NEW name,
         Decode(b \o Marker(4)) = Meaning(line, Marker(4))
  PROVE  Right(line, EmitRef(b, name, "RELATIVE", 4))
<1> DEFINE e == EmitRef(b, name, "RELATIVE", 4)
<1>1. e.ref = [name |-> name, type |-> "RELATIVE"] /\ e.head = b
  BY DEF EmitRef
<1> HIDE DEF e
<1>2. e.ref # NoRef /\ PatchWidth(e.ref.type) = 4
  <2>1. e.ref.type = "RELATIVE"  BY <1>1
  <2>2. NoRef.type = "NONE" /\ "NONE" # "RELATIVE"  BY SMT DEF NoRef
  <2> QED  BY <2>1, <2>2 DEF PatchWidth
<1>3. AddressOf(e) = Marker(4) /\ Filled(e) = b \o Marker(4)
  BY <1>1, <1>2 DEF AddressOf, Filled
<1> QED  BY <1>3 DEF Right, e

LEMMA Rejected == Reject.err
  BY DEF Reject, Throw

LEMMA LowOperand ==
  ASSUME NEW op \in Operand, IsReg(op) \/ IsMem(op), ~Extended(op)
  PROVE  Low(op.value)
<1>1. op.type = "REGISTER"  BY DEF IsReg, IsMem
<1>2. op.value \in Register /\ ~(op.value.code >= 8)
  BY <1>1, RegisterValue DEF Extended
<1> QED  BY SMT, <1>2, RegisterParts DEF Low

-----------------------------------------------------------------------------
(* ADD, SUB, CMP.                                                          *)
LEMMA AluRight ==
  ASSUME NEW line \in Line, ~Misencoded(line),
         NEW t \in AluRows, line.mnemonic = t[5],
         NEW rr8 \in Opcodes, rr8 \in ByteForms, rr8 \in ToRM,
         NEW rr \in Opcodes, rr \notin ByteForms, rr \in ToRM,
         \A reg : NameOf(rr8, reg) = t[5] /\ NameOf(rr, reg) = t[5],
         NEW otherwise, otherwise.err \/ line.mnemonic = "CMP",
         NEW e, e = Alu(line.operands, rr8, rr, t[1], t[2], t[3], otherwise),
         ~e.err
  PROVE  Right(line, e)
<1> DEFINE ops == line.operands
           d == ops[1].value
           s == ops[2].value
<1>1. ops \in Operands  BY DEF Line
<1>2. Len(ops) = 2  BY Rejected DEF Alu
<1>3. ops[1] \in Operand /\ ops[2] \in Operand /\ DOMAIN ops = {1, 2}
  BY <1>1, <1>2, TwoOperands
<1>4. ~Extended(ops[1]) /\ ~Extended(ops[2])
  BY <1>3 DEF Misencoded, HasExtended
<1>5. /\ line.mnemonic \in Arithmetic /\ line.mnemonic \notin Jumps
      /\ line.mnemonic \notin {"NOP", "HLT", "SYSCALL", "RET", "INT"}
  <2>1. t[5] \in {"ADD", "SUB", "CMP"}  BY AluRowParts
  <2> QED  BY SMT, <2>1 DEF Jumps, Arithmetic
<1>6. IsReg(ops[1]) /\ (IsReg(ops[2]) \/ IsImm(ops[2]))
  <2>1. SUFFICES ASSUME ~(IsReg(ops[1]) /\ (IsReg(ops[2]) \/ IsImm(ops[2])))
                 PROVE  FALSE
    OBVIOUS
  <2>2. e = otherwise  BY <1>2, <2>1 DEF Alu
  <2>3. line.mnemonic = "CMP"  BY <2>2
  <2> QED  BY <2>1, <2>3 DEF Misencoded, ComparesNothing
<1>7. Low(d)  BY <1>3, <1>4, <1>6, LowOperand
<1>8. CASE IsReg(ops[2])
  <2>1. Low(s)  BY <1>3, <1>4, <1>8, LowOperand
  <2>2. e = AluRegReg(d, s, rr8, rr)
    BY <1>2, <1>6, <1>8, Kinds DEF Alu
  <2>3. d.size = s.size  BY <2>2, Rejected DEF AluRegReg
  <2> DEFINE b == Sized(d.size, rr8, rr) \o << PairByte(d, s) >>
  <2>4. e = Emit(b)  BY <2>2, <2>3 DEF AluRegReg, PairByte
  <2>5. b \in Bytes
    <3>1. PairByte(d, s) \in Byte
      <4>1. \hC0 + TwoRegisterMagic(d, s) \in Int
        BY SMT, <1>7, <2>1, LowParts DEF TwoRegisterMagic
      <4> QED  BY <4>1, ByteOf DEF PairByte
    <3>2. rr8 \in Byte /\ rr \in Byte  BY DEF Opcodes
    <3> QED  BY <3>1, <3>2, OneByte, SizedBytes, CatBytes
  <2>6. t[5] \notin {"CALL", "JMP", "undecodable"}  BY AluRowParts
  <2>7. Decode(b) = Insn(t[5], d.size, 8, << RegArg(d.code), RegArg(s.code) >>)
    BY <1>7, <2>1, <2>6, RegRegDecodes
  <2> HIDE DEF b
  <2>8. SizeOf(line) = d.size /\ AddressSize(ops) = 8
    BY <1>2, <1>3, <1>5, <1>6, <1>8, <2>3, Kinds, SizeFromTwo DEF SameSizes
  <2>9. [k \in DOMAIN ops |-> Argument(ops[k], SizeOf(line), << >>)]
          = << RegArg(d.code), RegArg(s.code) >>
    BY <1>1, <1>2, <1>6, <1>8, TwoOperands, ArgumentIs
  <2>10. Meaning(line, << >>) = Insn(t[5], d.size, 8, << RegArg(d.code), RegArg(s.code) >>)
    BY <1>5, <2>8, <2>9, MeaningIs
  <2> QED  BY <2>4, <2>5, <2>7, <2>10, EmitRight
<1>9. CASE IsImm(ops[2])
  <2>1. s \in Immediate  BY <1>3, <1>9, ImmediateValue DEF IsImm
  <2>2. e = AluRegImm(d, s, t[1], t[2], t[3])
    BY <1>2, <1>6, <1>9, Kinds DEF Alu
  <2>3. ~Exceeds(s, CapOf(d.size))  BY <2>2, Rejected DEF AluRegImm
  <2> DEFINE b == AluOpcode(d, t[1], t[2], t[3]) \o LowBytes(s, CapOf(d.size))
  <2>4. e = Emit(b)  BY <2>2, <2>3 DEF AluRegImm
  <2>5. d.size = 8 => s[4] < 128
    <3>1. d.size = 8 => ~(s[4] >= 128)
      BY <1>5, <1>6, <1>9 DEF Misencoded, WidensNegative
    <3>2. s[4] \in 0 .. 255  BY SMT, <2>1 DEF Immediate, Byte
    <3> QED  BY SMT, <3>1, <3>2
  <2>6. b \in Bytes
    <3>1. LowBytes(s, CapOf(d.size)) \in Bytes
      BY <1>7, <2>1, <2>3, <2>5, LowParts, SignExtendedCapped
    <3>2. AluOpcode(d, t[1], t[2], t[3]) \in Bytes
      <4>1. t[1] \in Byte /\ t[2] \in Byte  BY AluRowParts DEF Opcodes
      <4>2. \h80 \in Byte /\ \h81 \in Byte  BY SMT DEF Byte
      <4>3. t[3] \in Int  BY SMT DEF AluRows
      <4>4. (t[3] + d.code) % 256 \in Byte
        <5>1. t[3] + d.code \in Int  BY SMT, <1>7, <4>3, LowParts
        <5> QED  BY <5>1, ByteOf
      <4> QED  BY <4>1, <4>2, <4>4, OneByte, SizedBytes, CatBytes DEF AluOpcode
    <3> QED  BY <3>1, <3>2, CatBytes
  <2>7. Decode(b) = Insn(t[5], d.size, 8,
                         << RegArg(d.code), ImmArg(Truncated(s, d.size)) >>)
    BY <1>7, <2>1, <2>3, <2>5, RegImmDecodes
  <2> HIDE DEF b
  <2>8. SizeOf(line) = d.size /\ AddressSize(ops) = 8
    BY <1>2, <1>3, <1>5, <1>6, <1>9, Kinds, SizeFromTwo
  <2>9. [k \in DOMAIN ops |-> Argument(ops[k], SizeOf(line), << >>)]
          = << RegArg(d.code), ImmArg(Truncated(s, d.size)) >>
    BY <1>1, <1>2, <1>6, <1>9, <2>8, TwoOperands, ArgumentIs
  <2>10. Meaning(line, << >>) = Insn(t[5], d.size, 8,
                          << RegArg(d.code), ImmArg(Truncated(s, d.size)) >>)
    BY <1>5, <2>8, <2>9, MeaningIs
  <2> QED  BY <2>4, <2>6, <2>7, <2>10, EmitRight
<1> QED  BY <1>6, <1>8, <1>9

-----------------------------------------------------------------------------
(* INC, DEC, MUL, DIV.                                                     *)
UnaryRows == { << \hFE, \hFF, \hC0, 0, "INC" >>, << \hFE, \hFF, \hC8, 1, "DEC" >>,
               << \hF6, \hF7, \hE0, 4, "MUL" >>, << \hF6, \hF7, \hF0, 6, "DIV" >> }

LEMMA UnaryRowParts ==
  ASSUME NEW t \in UnaryRows
  PROVE  /\ t[1] \in Opcodes /\ t[1] \in ByteForms /\ t[1] \in {\hFE, \hFF, \hF6, \hF7}
         /\ t[2] \in Opcodes /\ t[2] \notin ByteForms /\ t[2] \in {\hFE, \hFF, \hF6, \hF7}
         /\ t[4] \in 0 .. 7
         /\ \A c \in 0 .. 7 : (t[3] + c) % 256 = RM(3, t[4], c)
         /\ NameOf(t[1], t[4]) = t[5] /\ NameOf(t[2], t[4]) = t[5]
         /\ t[5] \in {"INC", "DEC", "MUL", "DIV"}
<1>1. t[1] \in {\hFE, \hF6} /\ t[2] \in {\hFF, \hF7} /\ t[2] = t[1] + 1
      /\ (t[1] # \hFE \/ t[4] <= 1) /\ t[2] # \hFE
  BY SMT DEF UnaryRows
<1>2. t[4] \in 0 .. 7 /\ \A c \in 0 .. 7 : (t[3] + c) % 256 = RM(3, t[4], c)
  BY SMT DEF UnaryRows, RM
<1>3. << t[1], t[4], t[5] >> \in Groups
  BY SMT DEF UnaryRows, Groups
<1>4. NameOf(t[1], t[4]) = t[5] /\ NameOf(t[2], t[4]) = t[5]
  <2> DEFINE u == << t[1], t[4], t[5] >>
  <2>1. u[1] = t[1] /\ u[2] = t[4] /\ u[3] = t[5]
    BY SMT
  <2> HIDE DEF u
  <2>2. u \in Groups  BY <1>3 DEF u
  <2> QED  BY <1>1, <2>1, <2>2, GroupNames
<1>5. t[5] \in {"INC", "DEC", "MUL", "DIV"}
  BY SMT DEF UnaryRows
<1>6. /\ t[1] \in Opcodes /\ t[1] \in ByteForms
      /\ t[2] \in Opcodes /\ t[2] \notin ByteForms
  BY SMT, <1>1, OpcodesWithForms
<1>7. t[1] \in {\hFE, \hFF, \hF6, \hF7} /\ t[2] \in {\hFE, \hFF, \hF6, \hF7}
  BY SMT, <1>1
<1> QED  BY <1>2, <1>4, <1>5, <1>6, <1>7

LEMMA UnaryRight ==
  ASSUME NEW line \in Line, ~Misencoded(line),
         NEW t \in UnaryRows, line.mnemonic = t[5],
         NEW e, e = Unary(line.operands, t[1], t[2], t[3]), ~e.err
  PROVE  Right(line, e)
<1> DEFINE ops == line.operands
           r == ops[1].value
           x == RM(3, t[4], r.code)
           b == Sized(r.size, t[1], t[2]) \o << x >>
<1>1. ops \in Operands  BY DEF Line
<1>2. Len(ops) = 1 /\ IsReg(ops[1])  BY Rejected DEF Unary
<1>3. ops[1] \in Operand /\ DOMAIN ops = {1}
  BY <1>1, <1>2, OneOperand
<1>4. ~Extended(ops[1])  BY <1>3 DEF Misencoded, HasExtended
<1>5. /\ line.mnemonic \notin Jumps
      /\ line.mnemonic \notin {"NOP", "HLT", "SYSCALL", "RET", "INT"}
      /\ t[5] # "undecodable" /\ t[5] \notin {"CALL", "JMP"}
  BY SMT, UnaryRowParts DEF Jumps
<1>6. Low(r)  BY <1>2, <1>3, <1>4, LowOperand
<1>7. r.code \in 0 .. 7  BY <1>6, LowParts
<1>8. (t[3] + r.code) % 256 = x  BY <1>7, UnaryRowParts
<1>9. e = Emit(b)  BY <1>2, <1>8 DEF Unary
<1>10. x \in Byte
  <2>1. t[4] \in 0 .. 7  BY UnaryRowParts
  <2> QED  BY SMT, <1>7, <2>1, FieldBits
<1>11. b \in Bytes
  <2>1. t[1] \in Byte /\ t[2] \in Byte  BY UnaryRowParts DEF Opcodes
  <2> QED  BY <1>10, <2>1, OneByte, SizedBytes, CatBytes
<1>12. Decode(b) = Insn(t[5], r.size, 8, << RegArg(r.code) >>)
  <2>1. /\ t[1] \in Opcodes /\ t[1] \in ByteForms /\ t[1] \in {\hFE, \hFF, \hF6, \hF7}
        /\ t[2] \in Opcodes /\ t[2] \notin ByteForms /\ t[2] \in {\hFE, \hFF, \hF6, \hF7}
        /\ t[4] \in 0 .. 7
        /\ NameOf(t[1], t[4]) = t[5] /\ NameOf(t[2], t[4]) = t[5]
    BY UnaryRowParts
  <2> HIDE DEF x
  <2>2. x = RM(3, t[4], r.code)  BY DEF x
  <2> QED  BY <1>5, <1>6, <1>10, <2>1, <2>2, GroupRegDecodes
<1> HIDE DEF b
<1>13. SizeOf(line) = r.size /\ AddressSize(ops) = 8
  BY <1>2, <1>3, <1>5, SizeFromOne
<1>14. [k \in DOMAIN ops |-> Argument(ops[k], SizeOf(line), << >>)]
         = << RegArg(r.code) >>
  BY <1>1, <1>2, OneOperand, ArgumentIs
<1>15. Meaning(line, << >>) = Insn(t[5], r.size, 8, << RegArg(r.code) >>)
  BY <1>5, <1>13, <1>14, MeaningIs
<1> QED  BY <1>9, <1>11, <1>12, <1>15, EmitRight

(* An address: the displacement is left out when it is 0.                  *)
LEMMA LE4Parts ==
  /\ \A v \in Int : LE4(v) \in Bytes /\ Len(LE4(v)) = 4
  /\ LE4(0) = Zeros(4)
<1>1. \A v \in Int : Len(LE4(v)) = 4  BY SMT DEF LE4
<1>2. LE4(0) = Zeros(4)  BY SMT DEF LE4, Zeros
<1> QED  BY <1>1, <1>2, LE4Bytes

LEMMA AddressDecodes ==
  ASSUME NEW reg \in 0 .. 7, NEW c \in 0 .. 7, NEW disp \in Int,
         c # 4, c # 5 \/ disp # 0, NEW x, x = RM(0, reg, c),
         NEW o \in HasModRM, NEW size, NEW asize
  PROVE  /\ WithDisplacement(x, disp) \in Bytes
         /\ DecodeOpcode(o, WithDisplacement(x, disp), size, asize)
              = DecodeFields(o, reg, MemArg(c, LE4(disp)), << >>, size, asize)
<1>1. x \in Byte /\ (x + \h80) % 256 = RM(2, reg, c) /\ RM(2, reg, c) \in Byte
  BY SMT DEF RM, Byte
<1>2. CASE disp = 0
  <2>1. WithDisplacement(x, disp) = << x >>  BY <1>2 DEF WithDisplacement
  <2>2. << x >> \o << >> = << x >> /\ << x >> \in Bytes
    BY <1>1, OneByte, CatEmpty
  <2>3. c \notin {4, 5}  BY <1>2
  <2>4. \A t \in Bytes : DecodeOpcode(o, << x >> \o t, size, asize)
                          = DecodeFields(o, reg, MemArg(c, Zeros(4)), t, size, asize)
    BY <2>3, AddressFields
  <2> QED  BY <1>2, <2>1, <2>2, <2>4, EmptyBytes, LE4Parts
<1>3. CASE disp # 0
  <2> DEFINE d == LE4(disp)
             y == RM(2, reg, c)
  <2>1. WithDisplacement(x, disp) = << y >> \o d
    BY <1>1, <1>3 DEF WithDisplacement
  <2>2. d \in Bytes /\ Len(d) = 4 /\ d \o << >> = d  BY LE4Parts, CatEmpty
  <2>3. << y >> \o d \in Bytes  BY <1>1, <2>2, OneByte, CatBytes
  <2> HIDE DEF d
  <2>4. \A t \in Bytes : DecodeOpcode(o, << y >> \o (d \o t), size, asize)
                          = DecodeFields(o, reg, MemArg(c, d), t, size, asize)
    BY <2>2, DisplacementFields
  <2>5. DecodeOpcode(o, << y >> \o d, size, asize)
          = DecodeFields(o, reg, MemArg(c, d), << >>, size, asize)
    BY <2>2, <2>4, EmptyBytes
  <2> QED  BY <2>1, <2>3, <2>5 DEF d
<1> QED  BY <1>2, <1>3

MemoryOf(op) == MemArg(op.value.code, LE4(op.displacement))

LEMMA AddressOperand ==
  ASSUME NEW op \in Operand, IsMem(op), ~Extended(op), ~StackBase(op),
         NEW reg \in 0 .. 7, NEW x, x = RM(0, reg, op.value.code),
         NEW o \in HasModRM, NEW size, NEW asize
  PROVE  /\ WithDisplacement(x, op.displacement) \in Bytes
         /\ DecodeOpcode(o, WithDisplacement(x, op.displacement), size, asize)
              = DecodeFields(o, reg, MemoryOf(op), << >>, size, asize)
<1> DEFINE c == op.value.code
           disp == op.displacement
<1>1. c \in 0 .. 7  BY LowOperand, LowParts
<1>2. disp \in Int  BY RegisterValue DEF IsMem
<1>3. c # 4 /\ (c # 5 \/ disp # 0)  BY DEF StackBase
<1>4. x = RM(0, reg, c) /\ MemoryOf(op) = MemArg(c, LE4(disp))  BY DEF MemoryOf
<1> HIDE DEF c, disp
<1>5. /\ WithDisplacement(x, disp) \in Bytes
      /\ DecodeOpcode(o, WithDisplacement(x, disp), size, asize)
           = DecodeFields(o, reg, MemArg(c, LE4(disp)), << >>, size, asize)
  BY <1>1, <1>2, <1>3, <1>4, AddressDecodes
<1> QED  BY <1>4, <1>5 DEF disp

(* INC of 64 bits of memory.                                               *)
LEMMA IncRight ==
  ASSUME NEW line \in Line, ~Misencoded(line), line.mnemonic = "INC",
         NEW e, e = INC(line.operands), ~e.err
  PROVE  Right(line, e)
<1> DEFINE ops == line.operands
           r == ops[1].value
           disp == ops[1].displacement
           b == << \h48, \hFF >> \o WithDisplacement(r.code, disp)
<1>1. ops \in Operands  BY DEF Line
<1>2. CASE ~(Len(ops) = 1 /\ IsMem(ops[1]))
  <2> DEFINE t == << \hFE, \hFF, \hC0, 0, "INC" >>
  <2>1. t \in UnaryRows  BY DEF UnaryRows
  <2>2. t[1] = \hFE /\ t[2] = \hFF /\ t[3] = \hC0 /\ t[5] = "INC"
    BY SMT
  <2> HIDE DEF t
  <2>3. e = Unary(ops, t[1], t[2], t[3])  BY <1>2, <2>2 DEF INC
  <2> QED  BY <2>1, <2>2, <2>3, UnaryRight
<1>3. CASE Len(ops) = 1 /\ IsMem(ops[1])
  <2>1. ops[1] \in Operand /\ DOMAIN ops = {1}
    BY <1>1, <1>3, OneOperand
  <2>2. ~Extended(ops[1]) /\ ~StackBase(ops[1]) /\ r.size = 8
    BY <1>3, <2>1 DEF Misencoded, HasExtended, HasStackBase, MisreadsSize
  <2>3. Low(r) /\ r.code \in 0 .. 7  BY <1>3, <2>1, <2>2, LowOperand, LowParts
  <2>6. Sized(r.size, \hFE, \hFF) = << \h48, \hFF >>
    BY SMT, <2>2 DEF Sized
  <2>7. e = Emit(b)  BY <1>3, <2>6 DEF INC
  <2>8. /\ \hFF \in Opcodes /\ \hFF \notin ByteForms /\ \hFF \in HasModRM
        /\ << \h48, \hFF >> \in Bytes
    <3>1. \hFF \in Opcodes /\ \hFF \notin ByteForms  BY SMT, OpcodesWithForms
    <3>2. \hFF \in HasModRM  BY SMT DEF HasModRM, GroupOpcodes
    <3>3. \hFF \in Byte /\ \h48 \in Byte  BY SMT DEF Byte
    <3> QED  BY <3>1, <3>2, <3>3, TwoBytes
  <2> DEFINE w == WithDisplacement(r.code, disp)
  <2>9. /\ w \in Bytes
        /\ DecodeOpcode(\hFF, w, 8, 8)
             = DecodeFields(\hFF, 0, MemoryOf(ops[1]), << >>, 8, 8)
    <3>1. r.code = RM(0, 0, r.code)  BY SMT, <2>3 DEF RM
    <3>2. 0 \in 0 .. 7  BY SMT
    <3>3. ASSUME NEW o \in HasModRM, NEW x, x = RM(0, 0, ops[1].value.code)
          PROVE  /\ WithDisplacement(x, ops[1].displacement) \in Bytes
                 /\ DecodeOpcode(o, WithDisplacement(x, ops[1].displacement), 8, 8)
                      = DecodeFields(o, 0, MemoryOf(ops[1]), << >>, 8, 8)
      BY <1>3, <2>1, <2>2, <3>2, <3>3, AddressOperand
    <3> QED  BY <2>8, <3>1, <3>3
  <2> HIDE DEF w
  <2>10. Decode(<< \h48, \hFF >> \o w) = DecodeOpcode(\hFF, w, 8, 8)
    <3>1. Width(\hFF, 8) = 8  BY <2>8 DEF Width
    <3>2. ASSUME NEW o \in Opcodes PROVE Decode(<< \h48, o >> \o w) = DecodeOpcode(o, w, Width(o, 8), 8)
      BY <2>9, DecodeBehind
    <3> QED  BY <2>8, <3>1, <3>2
  <2>11. DecodeFields(\hFF, 0, MemoryOf(ops[1]), << >>, 8, 8)
           = Insn("INC", 8, 8, << MemoryOf(ops[1]) >>)
    <3> DEFINE o == \hFF
               arg == MemoryOf(ops[1])
    <3>1. NameOf(o, 0) = "INC"
      <4> DEFINE t == << \hFE, \hFF, \hC0, 0, "INC" >>
      <4>1. t \in UnaryRows  BY DEF UnaryRows
      <4>2. t[2] = o /\ t[4] = 0 /\ t[5] = "INC"  BY SMT
      <4> HIDE DEF t, o
      <4> QED  BY <4>1, <4>2, UnaryRowParts
    <3>2. o \in {\hFE, \hFF, \hF6, \hF7}  OBVIOUS
    <3>3. Len(<< >>) = 0 /\ 8 # 4  BY SMT
    <3>4. "INC" # "undecodable"  BY SMT
    <3> HIDE DEF o
    <3>5. o \notin HasImm /\ Arguments(o, 0, arg, << >>, 8) = << arg >>
      BY <3>2, OpcodeKinds, ArgumentsAre
    <3>6. Len(<< >>) = IF o \in HasImm THEN ImmWidth(8) ELSE 0
      BY <3>3, <3>5
    <3> QED  BY <3>1, <3>3, <3>4, <3>5, <3>6, ArgKinds, FieldsDecoded DEF o, MemoryOf
  <2>12. /\ line.mnemonic \notin Jumps
         /\ line.mnemonic \notin {"NOP", "HLT", "SYSCALL", "RET", "INT"}
    BY SMT DEF Jumps
  <2>13. SizeOf(line) = 8 /\ AddressSize(ops) = 8
    BY <1>3, <2>1, <2>2, <2>12, SizeFromOne
  <2>14. [k \in DOMAIN ops |-> Argument(ops[k], SizeOf(line), << >>)]
           = << MemoryOf(ops[1]) >>
    BY <1>1, <1>3, OneOperand, ArgumentIs DEF MemoryOf
  <2>15. Meaning(line, << >>) = Insn("INC", 8, 8, << MemoryOf(ops[1]) >>)
    BY <2>12, <2>13, <2>14, MeaningIs
  <2>16. b \in Bytes  BY <2>8, <2>9, CatBytes DEF w
  <2> QED  BY <2>7, <2>9, <2>10, <2>11, <2>15, <2>16, EmitRight DEF w
<1> QED  BY <1>2, <1>3

-----------------------------------------------------------------------------
(* The opcodes without a mod-r/m byte and without prefixes.                *)
LEMMA PlainIs ==
  ASSUME NEW o \in Opcodes, o \notin HasModRM, o \notin ByteForms, NEW rest \in Bytes
  PROVE  Decode(<< o >> \o rest) = DecodePlain(o, rest, 4, 8)
<1>1. Width(o, 4) = 4  BY DEF Width
<1>2. Decode(<< o >> \o rest) = DecodeOpcode(o, rest, Width(o, 4), 8)
  BY DecodeBehind
<1> QED  BY <1>1, <1>2 DEF DecodeOpcode

LEMMA FarDecodes ==
  ASSUME NEW rest \in Bytes, Len(rest) = 4
  PROVE  /\ Decode(<< \hE8 >> \o rest) = Insn("CALL", 8, 8, << RelArg(rest) >>)
         /\ Decode(<< \hE9 >> \o rest) = Insn("JMP", 8, 8, << RelArg(rest) >>)
<1>1. DecodePlain(\hE8, rest, 4, 8) = Insn("CALL", 8, 8, << RelArg(rest) >>)
  BY SMT DEF DecodePlain
<1>2. DecodePlain(\hE9, rest, 4, 8) = Insn("JMP", 8, 8, << RelArg(rest) >>)
  BY SMT DEF DecodePlain
<1>3. ASSUME NEW o \in {\hE8, \hE9}
      PROVE  Decode(<< o >> \o rest) = DecodePlain(o, rest, 4, 8)
  <2>1. o \in Opcodes /\ o \notin HasModRM /\ o \notin ByteForms
    BY SMT, <1>3, OpcodesWithForms
  <2> QED  BY <2>1, PlainIs
<1> QED  BY <1>1, <1>2, <1>3

ConditionRows == { << \h84, "JE" >>, << \h85, "JNE" >>, << \h8C, "JL" >>,
                   << \h8D, "JGE" >>, << \h8E, "JLE" >>, << \h8F, "JG" >> }

LEMMA ConditionDecodes ==
  ASSUME NEW t \in ConditionRows, NEW rest \in Bytes, Len(rest) = 4
  PROVE  Decode(<< \h0F, t[1] >> \o rest) = Insn(t[2], 8, 8, << RelArg(rest) >>)
<1>1. /\ t[1] \in Byte /\ t[1] - 128 \in DOMAIN Conditions
      /\ Conditions[t[1] - 128] = t[2]
  BY SMT DEF ConditionRows, Conditions, Byte
<1> DEFINE r == << t[1] >> \o rest
<1>2. /\ r \in Bytes /\ Len(r) = 5 /\ r[1] = t[1] /\ Skip(r, 1) = rest
  <2>1. Len(r) = 1 + Len(rest) /\ r \in Bytes /\ r[1] = t[1]
    BY <1>1, FirstOfTwo
  <2>2. Skip(r, 1) = rest  BY <1>1, SkipFirst
  <2> HIDE DEF r
  <2>3. Len(r) = 5  BY SMT, <2>1
  <2> QED  BY <2>1, <2>2, <2>3
<1>3. << \h0F, t[1] >> \o rest = << \h0F >> \o r
  BY SMT, <1>1 DEF Bytes
<1> HIDE DEF r
<1>4. DecodePlain(\h0F, r, 4, 8)
        = Insn(Conditions[r[1] - 128], 8, 8, << RelArg(Skip(r, 1)) >>)
  BY SMT, <1>1, <1>2 DEF DecodePlain
<1>5. Decode(<< \h0F >> \o r) = DecodePlain(\h0F, r, 4, 8)
  <2>1. ASSUME NEW o, o = \h0F
        PROVE  o \in Opcodes /\ o \notin HasModRM /\ o \notin ByteForms
    BY SMT, <2>1, OpcodesWithForms
  <2>2. ASSUME NEW o, o = \h0F
        PROVE  Decode(<< o >> \o r) = DecodePlain(o, r, 4, 8)
    BY <1>2, <2>1, <2>2, PlainIs
  <2> QED  BY <2>2
<1> QED  BY <1>1, <1>2, <1>3, <1>4, <1>5

LEMMA MarkerParts ==
  Marker(4) \in Bytes /\ Len(Marker(4)) = 4
  BY SMT DEF Marker, Bytes, Byte

LEMMA BranchRight ==
  ASSUME NEW line \in Line, line.mnemonic \in Jumps, Len(line.operands) = 1,
         NEW p \in Bytes,
         \A rest \in Bytes : Len(rest) = 4 =>
           Decode(p \o rest) = Insn(line.mnemonic, 8, 8, << RelArg(rest) >>),
         NEW e, e = Branch(line.operands[1], p), ~e.err
  PROVE  Right(line, e)
<1> DEFINE op == line.operands[1]
<1>1. op \in Operand
  <2>1. line.operands \in Operands  BY DEF Line
  <2> QED  BY <2>1, OneOperand
<1>2. CASE IsImm(op)
  <2> DEFINE low == LowBytes(op.value, 4)
             b == p \o low
  <2>1. e = Emit(b)  BY <1>2, Kinds, Rejected DEF Branch
  <2>2. op.value \in Immediate  BY <1>1, <1>2, ImmediateValue DEF IsImm
  <2>3. low \in Bytes /\ Len(low) = 4 /\ Truncated(op.value, 4) = low
    <3>1. 4 \in 1 .. 8  BY SMT
    <3> QED  BY <2>2, <3>1, LowBytesParts
  <2> HIDE DEF low
  <2>4. Decode(b) = Insn(line.mnemonic, 8, 8, << RelArg(low) >>)
    BY <2>3
  <2>5. Meaning(line, << >>) = Insn(line.mnemonic, 8, 8, << RelArg(low) >>)
    BY <1>2, <2>3, Kinds DEF Meaning, BranchMeaning
  <2>6. b \in Bytes  BY <2>3, CatBytes
  <2> HIDE DEF b
  <2> QED  BY <2>1, <2>4, <2>5, <2>6, EmitRight
<1>3. CASE IsLabel(op)
  <2>1. e = EmitRef(p, op.value, "RELATIVE", 4)
    BY <1>3, Kinds DEF Branch
  <2>2. Decode(p \o Marker(4)) = Insn(line.mnemonic, 8, 8, << RelArg(Marker(4)) >>)
    BY MarkerParts
  <2>3. Meaning(line, Marker(4)) = Insn(line.mnemonic, 8, 8, << RelArg(Marker(4)) >>)
    BY <1>3, Kinds DEF Meaning, BranchMeaning
  <2> QED  BY <2>1, <2>2, <2>3, RefRight
<1>4. CASE ~IsImm(op) /\ ~IsLabel(op)
  BY <1>4, Rejected DEF Branch
<1> QED  BY <1>2, <1>3, <1>4

LEMMA ConditionRight ==
  ASSUME NEW line \in Line, NEW t \in ConditionRows, line.mnemonic = t[2],
         NEW e, e = Jcc(line.operands, t[1]), ~e.err
  PROVE  Right(line, e)
<1>1. Len(line.operands) = 1 /\ e = Branch(line.operands[1], << \h0F, t[1] >>)
  BY Rejected DEF Jcc
<1>2. t[2] \in Jumps  BY SMT DEF ConditionRows, Jumps
<1>3. << \h0F, t[1] >> \in Bytes
  <2>1. \h0F \in Byte /\ t[1] \in Byte  BY SMT DEF ConditionRows, Byte
  <2> QED  BY <2>1, TwoBytes
<1> DEFINE p == << \h0F, t[1] >>
<1>4. \A rest \in Bytes : Len(rest) = 4 =>
        Decode(p \o rest) = Insn(line.mnemonic, 8, 8, << RelArg(rest) >>)
  BY ConditionDecodes
<1> HIDE DEF p
<1>5. p \in Bytes /\ e = Branch(line.operands[1], p)  BY <1>1, <1>3 DEF p
<1> QED  BY <1>1, <1>2, <1>4, <1>5, BranchRight

(* CALL and JMP.                                                           *)
FarRows == { << \hE8, \hD0, 2, "CALL" >>, << \hE9, \hE0, 4, "JMP" >> }

LEMMA FarRight ==
  ASSUME NEW line \in Line, ~Misencoded(line),
         NEW t \in FarRows, line.mnemonic = t[4],
         NEW e, e = FarBranch(line.operands, t[1], t[2]), ~e.err
  PROVE  Right(line, e)
<1> DEFINE ops == line.operands
           r == ops[1].value
           x == RM(3, t[3], r.code)
<1>1. Len(ops) = 1 /\ ops \in Operands  BY Rejected DEF FarBranch, Line
<1>2. t[4] \in Jumps /\ t[4] \in {"CALL", "JMP"} /\ t[4] # "undecodable"
  BY SMT DEF FarRows, Jumps
<1>3. CASE ~IsReg(ops[1])
  <2> DEFINE p == << t[1] >>
  <2>1. e = Branch(ops[1], p)  BY <1>1, <1>3 DEF FarBranch
  <2>2. p \in Bytes
    <3>1. t[1] \in Byte  BY SMT DEF FarRows, Byte
    <3> QED  BY <3>1, OneByte
  <2>3. \A rest \in Bytes : Len(rest) = 4 =>
          Decode(p \o rest) = Insn(line.mnemonic, 8, 8, << RelArg(rest) >>)
    <3>1. \/ t[1] = \hE8 /\ t[4] = "CALL"
          \/ t[1] = \hE9 /\ t[4] = "JMP"
      <4>1. CASE t = << \hE8, \hD0, 2, "CALL" >>  BY SMT, <4>1
      <4>2. CASE t = << \hE9, \hE0, 4, "JMP" >>  BY SMT, <4>2
      <4> QED  BY <4>1, <4>2 DEF FarRows
    <3> QED  BY <3>1, FarDecodes
  <2> HIDE DEF p
  <2> QED  BY <1>1, <1>2, <2>1, <2>2, <2>3, BranchRight
<1>4. CASE IsReg(ops[1])
  <2> DEFINE b == Sized(r.size, \hFF, \hFF) \o << x >>
  <2>1. ops[1] \in Operand /\ DOMAIN ops = {1}  BY <1>1, OneOperand
  <2>2. ~Extended(ops[1]) /\ r.size # 4
    BY <1>2, <1>4, <2>1 DEF Misencoded, HasExtended, MisreadsSize
  <2>3. Low(r) /\ r.code \in 0 .. 7  BY <1>4, <2>1, <2>2, LowOperand, LowParts
  <2>4. r.size # 1  BY <1>1, <1>4, Rejected DEF FarBranch
  <2>5. t[3] \in 0 .. 7 /\ (t[2] + r.code) % 256 = x
    BY SMT, <2>3 DEF FarRows, RM
  <2>6. x \in Byte  BY SMT, <2>3, <2>5, FieldBits
  <2>7. e = Emit(b)  BY <1>1, <1>4, <2>4, <2>5 DEF FarBranch
  <2>8. NameOf(\hFF, t[3]) = t[4]
    <3> DEFINE u == << \hFE, t[3], t[4] >>
               o == \hFF
    <3>1. u \in Groups  BY SMT DEF FarRows, Groups
    <3>2. u[1] = \hFE /\ u[2] = t[3] /\ u[3] = t[4] /\ o = u[1] + 1 /\ o # \hFE
      BY SMT
    <3> HIDE DEF u, o
    <3>3. NameOf(o, u[2]) = u[3]  BY <3>1, <3>2, GroupNames
    <3> QED  BY <3>2, <3>3 DEF o
  <2>9. \hFF \in Opcodes /\ \hFF \notin ByteForms  BY SMT, OpcodesWithForms
  <2>10. Decode(b) = Insn(t[4], r.size, 8, << RegArg(r.code) >>)
    <3> DEFINE o == \hFF
    <3>1. o \in Opcodes /\ o \notin ByteForms /\ NameOf(o, t[3]) = t[4]
          /\ o \in {\hFE, \hFF, \hF6, \hF7}
      BY <2>8, <2>9
    <3> HIDE DEF o, x
    <3>2. x = RM(3, t[3], r.code)  BY DEF x
    <3>3. Decode(Sized(r.size, o, o) \o << x >>)
            = Insn(t[4], r.size, 8, << RegArg(r.code) >>)
      BY <1>2, <2>2, <2>3, <2>4, <2>5, <2>6, <3>1, <3>2, GroupRegDecodes
    <3> QED  BY <3>3 DEF o
  <2>11. b \in Bytes
    <3>1. \hFF \in Byte  BY SMT DEF Byte
    <3> QED  BY <2>6, <3>1, OneByte, SizedBytes, CatBytes
  <2> HIDE DEF b
  <2>12. Meaning(line, << >>) = Insn(t[4], r.size, 8, << RegArg(r.code) >>)
    BY <1>2, <1>4 DEF Meaning, BranchMeaning
  <2> QED  BY <2>7, <2>10, <2>11, <2>12, EmitRight
<1> QED  BY <1>3, <1>4

-----------------------------------------------------------------------------
(* RET, INT, and the instructions without operands.                        *)
LEMMA PairIs ==
  ASSUME NEW u \in Bytes, Len(u) = 2, NEW x \in Byte, NEW y \in Byte,
         u[1] = x, u[2] = y
  PROVE  u = << x, y >>
  BY SMT DEF Bytes

LEMMA PairCat == \A x, y \in Byte : << x >> \o << y >> = << x, y >>
<1>1. ASSUME NEW x \in Byte, NEW y \in Byte, NEW s \in Bytes, NEW t \in Bytes,
             Len(s) = 1, s[1] = x, Len(t) = 1, t[1] = y
      PROVE  s \o t = << x, y >>
  <2> DEFINE u == s \o t
  <2>1. /\ u \in Bytes /\ Len(u) = Len(s) + Len(t)
        /\ \A k \in 1 .. Len(s) : u[k] = s[k]
        /\ \A k \in 1 .. Len(t) : u[Len(s) + k] = t[k]
    BY CatParts
  <2> HIDE DEF u
  <2>2. Len(u) = 2 /\ u[1] = x /\ u[2] = y  BY SMT, <1>1, <2>1
  <2>3. u = << x, y >>  BY <2>1, <2>2, PairIs
  <2> QED  BY <2>3 DEF u
<1>2. \A x \in Byte : Len(<< x >>) = 1 /\ << x >>[1] = x
  BY SMT
<1> QED  BY <1>1, <1>2, OneByte

LEMMA BareDecodes ==
  /\ Decode(<< \hF4 >>) = Insn("HLT", 8, 8, << >>)
  /\ Decode(<< \h90 >>) = Insn("NOP", 8, 8, << >>)
  /\ Decode(<< \hC3 >>) = Insn("RET", 8, 8, << >>)
  /\ Decode(<< \h0F, \h05 >>) = Insn("SYSCALL", 8, 8, << >>)
<1>1. /\ DecodePlain(\hF4, << >>, 4, 8) = Insn("HLT", 8, 8, << >>)
      /\ DecodePlain(\h90, << >>, 4, 8) = Insn("NOP", 8, 8, << >>)
      /\ DecodePlain(\hC3, << >>, 4, 8) = Insn("RET", 8, 8, << >>)
  BY SMT DEF DecodePlain
<1>2. DecodePlain(\h0F, << 5 >>, 4, 8) = Insn("SYSCALL", 8, 8, << >>)
  BY SMT DEF DecodePlain
<1>3. ASSUME NEW o \in {\hF4, \h90, \hC3}
      PROVE  Decode(<< o >>) = DecodePlain(o, << >>, 4, 8)
  <2>1. o \in Opcodes /\ o \notin HasModRM /\ o \notin ByteForms
    BY SMT, <1>3, OpcodesWithForms
  <2>2. \A rest \in Bytes : Decode(<< o >> \o rest) = DecodePlain(o, rest, 4, 8)
    BY <2>1, PlainIs
  <2>3. << o >> \o << >> = << o >>  OBVIOUS
  <2> QED  BY <2>2, <2>3, EmptyBytes
<1>4. Decode(<< \h0F, \h05 >>) = DecodePlain(\h0F, << 5 >>, 4, 8)
  <2>1. ASSUME NEW o, o = \h0F
        PROVE  o \in Opcodes /\ o \notin HasModRM /\ o \notin ByteForms
    BY SMT, <2>1, OpcodesWithForms
  <2>2. ASSUME NEW o, o = \h0F, NEW rest \in Bytes
        PROVE  Decode(<< o >> \o rest) = DecodePlain(o, rest, 4, 8)
    BY <2>1, <2>2, PlainIs
  <2>3. << 5 >> \in Bytes
    <3>1. 5 \in Byte  BY SMT DEF Byte
    <3> QED  BY <3>1, OneByte
  <2>4. Decode(<< \h0F >> \o << 5 >>) = DecodePlain(\h0F, << 5 >>, 4, 8)
    BY <2>2, <2>3
  <2>5. << \h0F >> \o << 5 >> = << \h0F, \h05 >>
    <3>1. \h0F \in Byte /\ 5 \in Byte  BY SMT DEF Byte
    <3> QED  BY <3>1, PairCat
  <2> QED  BY <2>4, <2>5
<1> QED  BY <1>1, <1>2, <1>3, <1>4

LEMMA CountedDecodes ==
  /\ \A rest \in Bytes : Len(rest) = 2 =>
       Decode(<< \hC2 >> \o rest) = Insn("RET", 8, 8, << ImmArg(rest) >>)
  /\ \A rest \in Bytes : Len(rest) = 1 =>
       Decode(<< \hCD >> \o rest) = Insn("INT", 8, 8, << ImmArg(rest) >>)
<1>1. ASSUME NEW o \in {\hC2, \hCD}, NEW rest \in Bytes
      PROVE  Decode(<< o >> \o rest) = DecodePlain(o, rest, 4, 8)
  <2>1. o \in Opcodes /\ o \notin HasModRM /\ o \notin ByteForms
    BY SMT, <1>1, OpcodesWithForms
  <2> QED  BY <2>1, PlainIs
<1>2. ASSUME NEW rest \in Bytes, Len(rest) = 2
      PROVE  DecodePlain(\hC2, rest, 4, 8) = Insn("RET", 8, 8, << ImmArg(rest) >>)
  BY SMT, <1>2 DEF DecodePlain
<1>3. ASSUME NEW rest \in Bytes, Len(rest) = 1
      PROVE  DecodePlain(\hCD, rest, 4, 8) = Insn("INT", 8, 8, << ImmArg(rest) >>)
  BY SMT, <1>3 DEF DecodePlain
<1> QED  BY <1>1, <1>2, <1>3

LEMMA BareMeaning ==
  ASSUME NEW line \in Line, Len(line.operands) = 0,
         line.mnemonic \in {"HLT", "NOP", "RET", "SYSCALL"}
  PROVE  Meaning(line, << >>) = Insn(line.mnemonic, 8, 8, << >>)
<1>1. line.operands \in Operands  BY DEF Line
<1>2. line.mnemonic \notin Jumps  BY SMT DEF Jumps
<1>3. DOMAIN line.operands = {}
      /\ [k \in DOMAIN line.operands |->
            Argument(line.operands[k], SizeOf(line), << >>)] = << >>
  BY <1>1, NoOperands
<1>4. AddressSize(line.operands) = 8
  <2>1. Len(line.operands) # 2  BY SMT
  <2> QED  BY <1>3, <2>1 DEF AddressSize
<1>5. (IF line.mnemonic \in {"RET", "INT"} THEN 8 ELSE SizeOf(line)) = 8
  <2>1. CASE line.mnemonic = "RET"  BY <2>1
  <2>2. CASE line.mnemonic # "RET"
    <3>1. line.mnemonic \in {"NOP", "HLT", "SYSCALL"}  BY <2>2
    <3>2. line.mnemonic \notin {"RET", "INT", "INC", "MOV"}  BY SMT, <3>1
    <3>3. RegisterSizes(line.operands) = {}  BY <1>3 DEF RegisterSizes
    <3> QED  BY <3>1, <3>2, <3>3 DEF SizeOf
  <2> QED  BY <2>1, <2>2
<1> QED  BY <1>2, <1>3, <1>4, <1>5, MeaningIs

LEMMA BareRight ==
  ASSUME NEW line \in Line, ~Misencoded(line), NEW e, ~e.err,
         \/ line.mnemonic = "HLT" /\ e = HLT(line.operands)
         \/ line.mnemonic = "SYSCALL" /\ e = SYSCALL(line.operands)
         \/ line.mnemonic = "NOP" /\ e = Emit(<< \h90 >>)
         \/ line.mnemonic = "RET" /\ e = RET(line.operands) /\ Len(line.operands) = 0
  PROVE  Right(line, e)
<1>1. Len(line.operands) = 0
  <2>1. line.mnemonic = "NOP" => line.operands = << >>
    BY DEF Misencoded, IgnoresOperands
  <2>2. Len(<< >>) = 0  BY SMT
  <2>3. line.mnemonic = "NOP" => Len(line.operands) = 0  BY <2>1, <2>2
  <2> QED  BY <2>3, Rejected DEF HLT, SYSCALL, Bare
<1>2. Meaning(line, << >>) = Insn(line.mnemonic, 8, 8, << >>)
  BY <1>1, BareMeaning
<1>3. /\ << \hF4 >> \in Bytes /\ << \h90 >> \in Bytes
      /\ << \hC3 >> \in Bytes /\ << \h0F, \h05 >> \in Bytes
  BY SMT DEF Bytes, Byte
<1>4. CASE line.mnemonic = "HLT" /\ e = HLT(line.operands)
  <2>1. e = Emit(<< \hF4 >>)  BY <1>1, <1>4 DEF HLT, Bare
  <2> QED  BY <1>2, <1>3, <1>4, <2>1, BareDecodes, EmitRight
<1>5. CASE line.mnemonic = "SYSCALL" /\ e = SYSCALL(line.operands)
  <2>1. e = Emit(<< \h0F, \h05 >>)  BY <1>1, <1>5 DEF SYSCALL, Bare
  <2> QED  BY <1>2, <1>3, <1>5, <2>1, BareDecodes, EmitRight
<1>6. CASE line.mnemonic = "NOP" /\ e = Emit(<< \h90 >>)
  BY <1>2, <1>3, <1>6, BareDecodes, EmitRight
<1>7. CASE line.mnemonic = "RET" /\ e = RET(line.operands)
  <2>1. e = Emit(<< \hC3 >>)
    <3>1. Len(line.operands) # 1  BY SMT, <1>1
    <3> QED  BY <1>1, <1>7, <3>1 DEF RET
  <2> QED  BY <1>2, <1>3, <1>7, <2>1, BareDecodes, EmitRight
<1> QED  BY <1>4, <1>5, <1>6, <1>7

(* The 16-bit operand of RET and the 8-bit operand of INT.                 *)
LEMMA CountedMeaning ==
  ASSUME NEW line \in Line, Len(line.operands) = 1, IsImm(line.operands[1]),
         line.mnemonic \in {"RET", "INT"}
  PROVE  Meaning(line, << >>)
           = Insn(line.mnemonic, 8, 8,
                  << ImmArg(LowBytes(line.operands[1].value,
                                     IF line.mnemonic = "RET" THEN 2 ELSE 1)) >>)
<1> DEFINE ops == line.operands
           n == IF line.mnemonic = "RET" THEN 2 ELSE 1
<1>1. ops \in Operands  BY DEF Line
<1>2. line.mnemonic \notin Jumps  BY SMT DEF Jumps
<1>3. ops[1] \in Operand /\ DOMAIN ops = {1}  BY <1>1, OneOperand
<1>4. SizeOf(line) = n
  <2>0. RegisterSizes(ops) = {}  BY <1>3, Kinds DEF RegisterSizes
  <2>1. CASE line.mnemonic = "RET"
    <3>1. line.mnemonic \notin {"NOP", "HLT", "SYSCALL", "INT", "INC", "MOV"}
      BY SMT, <2>1
    <3> QED  BY <2>0, <2>1, <3>1 DEF SizeOf
  <2>2. CASE line.mnemonic = "INT"
    <3>1. line.mnemonic \notin {"NOP", "HLT", "SYSCALL", "RET", "INC", "MOV"}
      BY SMT, <2>2
    <3> QED  BY <2>0, <2>2, <3>1 DEF SizeOf
  <2> QED  BY <2>1, <2>2
<1>5. AddressSize(ops) = 8
  <2>1. Len(ops) # 2  BY SMT
  <2> QED  BY <1>3, <2>1, Kinds DEF AddressSize
<1>6. ops[1].value \in Immediate  BY <1>3, ImmediateValue DEF IsImm
<1>7. n \in 1 .. 8  BY SMT
<1> HIDE DEF n
<1>8. [k \in DOMAIN ops |-> Argument(ops[k], SizeOf(line), << >>)]
        = << ImmArg(LowBytes(ops[1].value, n)) >>
  BY <1>1, <1>4, <1>6, <1>7, OneOperand, ArgumentIs, LowBytesParts
<1>9. (IF line.mnemonic \in {"RET", "INT"} THEN 8 ELSE SizeOf(line)) = 8
  OBVIOUS
<1> QED  BY <1>2, <1>5, <1>8, <1>9, MeaningIs DEF n

LEMMA CountedRight ==
  ASSUME NEW line \in Line, Len(line.operands) = 1, NEW e, ~e.err,
         \/ line.mnemonic = "RET" /\ e = RET(line.operands)
         \/ line.mnemonic = "INT" /\ e = INT(line.operands)
  PROVE  Right(line, e)
<1> DEFINE op == line.operands[1]
<1>1. IsImm(op)
  <2>1. Len(line.operands) # 0  BY SMT
  <2> QED  BY <2>1, Rejected DEF RET, INT
<1>2. op.value \in Immediate
  <2>1. line.operands \in Operands  BY DEF Line
  <2> QED  BY <1>1, <2>1, OneOperand, ImmediateValue DEF IsImm
<1>3. /\ LowBytes(op.value, 2) \in Bytes /\ Len(LowBytes(op.value, 2)) = 2
      /\ LowBytes(op.value, 1) \in Bytes /\ Len(LowBytes(op.value, 1)) = 1
      /\ LowBytes(op.value, 1)[1] = op.value[1] /\ op.value[1] \in Byte
  <2>1. 1 \in 1 .. 8 /\ 2 \in 1 .. 8 /\ 1 \in 1 .. 1  BY SMT
  <2>2. op.value[1] \in Byte  BY <1>2, <2>1 DEF Immediate
  <2> QED  BY <1>2, <2>1, <2>2, LowBytesParts
<1>4. CASE line.mnemonic = "RET" /\ e = RET(line.operands)
  <2> DEFINE b == << \hC2 >> \o LowBytes(op.value, 2)
  <2>1. e = Emit(b)
    <3>1. Len(line.operands) # 0  BY SMT
    <3> QED  BY <1>4, <3>1, Rejected DEF RET
  <2>2. b \in Bytes
    <3>1. \hC2 \in Byte  BY SMT DEF Byte
    <3> QED  BY <1>3, <3>1, OneByte, CatBytes
  <2>3. Decode(b) = Meaning(line, << >>)
    BY <1>1, <1>3, <1>4, CountedDecodes, CountedMeaning
  <2> HIDE DEF b
  <2> QED  BY <2>1, <2>2, <2>3, EmitRight
<1>5. CASE line.mnemonic = "INT" /\ e = INT(line.operands)
  <2> DEFINE b == << \hCD >> \o LowBytes(op.value, 1)
  <2>1. << \hCD, op.value[1] >> = b
    <3> DEFINE low == LowBytes(op.value, 1)
    <3>1. low \in Bytes /\ Len(low) = 1 /\ low[1] = op.value[1]  BY <1>3
    <3> HIDE DEF low
    <3>2. low = << op.value[1] >>  BY SMT, <1>3, <3>1 DEF Bytes
    <3>3. \hCD \in Byte  BY SMT DEF Byte
    <3> QED  BY <1>3, <3>2, <3>3, PairCat DEF low
  <2>2. e = Emit(b)
    BY <1>5, <2>1, Rejected DEF INT
  <2>3. b \in Bytes
    <3>1. \hCD \in Byte  BY SMT DEF Byte
    <3> QED  BY <1>3, <3>1, OneByte, CatBytes
  <2>4. line.mnemonic # "RET"  BY SMT, <1>5
  <2>5. Decode(b) = Meaning(line, << >>)
    BY <1>1, <1>3, <1>5, <2>4, CountedDecodes, CountedMeaning
  <2> HIDE DEF b
  <2> QED  BY <2>2, <2>3, <2>5, EmitRight
<1> QED  BY <1>4, <1>5

-----------------------------------------------------------------------------
(* MOV between registers and of an immediate to a register.                *)
MovOperands(line) ==
  /\ line \in Line /\ line.mnemonic = "MOV" /\ ~Misencoded(line)
  /\ Len(line.operands) = 2

LEMMA MovShape ==
  ASSUME NEW line, MovOperands(line)
  PROVE  /\ line.operands \in Operands
         /\ line.operands[1] \in Operand /\ line.operands[2] \in Operand
         /\ DOMAIN line.operands = {1, 2}
         /\ ~Extended(line.operands[1]) /\ ~Extended(line.operands[2])
         /\ ~StackBase(line.operands[1]) /\ ~StackBase(line.operands[2])
         /\ ~Stores(line) /\ ~MovesLabel(line) /\ ~MisreadsAddress(line)
         /\ IsMov(line)
         /\ line.mnemonic \notin Jumps
         /\ line.mnemonic \notin {"NOP", "HLT", "SYSCALL", "RET", "INT"}
<1>1. line.operands \in Operands  BY DEF MovOperands, Line
<1>2. line.operands[1] \in Operand /\ line.operands[2] \in Operand
      /\ DOMAIN line.operands = {1, 2}
  BY <1>1, TwoOperands DEF MovOperands
<1>3. ~HasExtended(line.operands) /\ ~HasStackBase(line.operands)
  BY DEF MovOperands, Misencoded
<1>4. ~Stores(line) /\ ~MovesLabel(line) /\ ~MisreadsAddress(line)
  BY DEF MovOperands, Misencoded
<1>5. ~Extended(line.operands[1]) /\ ~Extended(line.operands[2])
  BY <1>2, <1>3 DEF HasExtended
<1>6. ~StackBase(line.operands[1]) /\ ~StackBase(line.operands[2])
  BY <1>2, <1>3 DEF HasStackBase
<1>7. /\ line.mnemonic \notin Jumps
      /\ line.mnemonic \notin {"NOP", "HLT", "SYSCALL", "RET", "INT"}
  BY SMT DEF MovOperands, Jumps
<1>8. IsMov(line)  BY DEF MovOperands, IsMov
<1> QED  BY <1>1, <1>2, <1>4, <1>5, <1>6, <1>7, <1>8

LEMMA MovRegRegRight ==
  ASSUME NEW line, MovOperands(line), NEW e, ~e.err,
         IsReg(line.operands[1]), IsReg(line.operands[2]),
         e = MovRegReg(line.operands[1].value, line.operands[2].value)
  PROVE  Right(line, e)
<1> DEFINE ops == line.operands
           d == ops[1].value
           s == ops[2].value
           b == Sized(d.size, \h88, \h89) \o << PairByte(d, s) >>
<1>1. Low(d) /\ Low(s)  BY MovShape, LowOperand
<1>2. d.size = s.size  BY Rejected DEF MovRegReg
<1>3. e = Emit(b)  BY <1>2 DEF MovRegReg, PairByte
<1>4. b \in Bytes
  <2>1. PairByte(d, s) \in Byte
    <3>1. \hC0 + TwoRegisterMagic(d, s) \in Int
      BY SMT, <1>1, LowParts DEF TwoRegisterMagic
    <3> QED  BY <3>1, ByteOf DEF PairByte
  <2>2. \h88 \in Byte /\ \h89 \in Byte  BY SMT DEF Byte
  <2> QED  BY <2>1, <2>2, OneByte, SizedBytes, CatBytes
<1>5. Decode(b) = Insn("MOV", d.size, 8, << RegArg(d.code), RegArg(s.code) >>)
  <2>1. ASSUME NEW o8, NEW o, o8 = \h88, o = \h89
        PROVE  Decode(Sized(d.size, o8, o) \o << PairByte(d, s) >>)
                 = Insn("MOV", d.size, 8, << RegArg(d.code), RegArg(s.code) >>)
    <3>1. /\ o8 \in Opcodes /\ o8 \in ByteForms /\ o8 \in ToRM
          /\ o \in Opcodes /\ o \notin ByteForms /\ o \in ToRM
      BY SMT, <2>1, OpcodesWithForms DEF ToRM
    <3>2. \A reg : NameOf(o8, reg) = "MOV" /\ NameOf(o, reg) = "MOV"
      <4>1. o8 \in {\h88, \h89, \h8A, \h8B} /\ o \in {\h88, \h89, \h8A, \h8B}
        BY <2>1
      <4> QED  BY <4>1, DirectNames
    <3>3. "MOV" \notin {"CALL", "JMP", "undecodable"}  BY SMT
    <3> QED  BY <1>1, <1>2, <3>1, <3>2, <3>3, RegRegDecodes
  <2> QED  BY <2>1
<1> HIDE DEF b
<1>6. SizeOf(line) = d.size /\ AddressSize(ops) = 8
  BY <1>2, MovShape, Kinds, SizeFromTwo DEF SameSizes, MovOperands
<1>7. [k \in DOMAIN ops |-> Argument(ops[k], SizeOf(line), << >>)]
        = << RegArg(d.code), RegArg(s.code) >>
  BY MovShape, TwoOperands, ArgumentIs DEF MovOperands
<1>8. Meaning(line, << >>) = Insn("MOV", d.size, 8, << RegArg(d.code), RegArg(s.code) >>)
  BY <1>6, <1>7, MovShape, MeaningIs DEF MovOperands
<1> QED  BY <1>3, <1>4, <1>5, <1>8, EmitRight

LEMMA MovImmDecodes ==
  ASSUME NEW o \in \hB0 .. \hBF, NEW rest, NEW size, Len(rest) = size
  PROVE  DecodeOpcode(o, rest, size, 8)
           = Insn("MOV", size, 8, << RegArg(o % 8), ImmArg(rest) >>)
<1>1. DecodePlain(o, rest, size, 8)
        = Insn("MOV", size, 8, << RegArg(o % 8), ImmArg(rest) >>)
  <2>1. /\ ~(o < \h40) /\ o # \hE8 /\ o # \hE9 /\ o # \h0F /\ o # \hC3
        /\ o # \hC2 /\ o # \hCD /\ o # \hF4 /\ o # \h90
    BY SMT
  <2> QED  BY Zenon, <2>1 DEF DecodePlain
<1>2. o \notin HasModRM  BY OpcodesPlain
<1> QED  BY <1>1, <1>2 DEF DecodeOpcode

LEMMA MovRegImmRight ==
  ASSUME NEW line, MovOperands(line), NEW e, ~e.err,
         IsReg(line.operands[1]), IsImm(line.operands[2]),
         e = MovRegImm(line.operands[1].value, line.operands[2].value)
  PROVE  Right(line, e)
<1> DEFINE ops == line.operands
           d == ops[1].value
           v == ops[2].value
           o8 == \hB0 + d.code
           o == \hB8 + d.code
           low == LowBytes(v, d.size)
           b == Sized(d.size, o8, o) \o low
<1>1. Low(d) /\ d.code \in 0 .. 7 /\ d.size \in {1, 2, 4, 8}
  BY MovShape, LowOperand, LowParts
<1>2. v \in Immediate  BY MovShape, ImmediateValue DEF IsImm
<1>3. e = Emit(b)  BY Rejected DEF MovRegImm
<1>4. /\ o8 \in \hB0 .. \hB7 /\ o8 % 8 = d.code
      /\ o \in \hB8 .. \hBF /\ o % 8 = d.code
  BY SMT, <1>1
<1> HIDE DEF o8, o
<1>5. /\ o8 \in Opcodes /\ o8 \in ByteForms /\ o8 \in \hB0 .. \hBF
      /\ o \in Opcodes /\ o \notin ByteForms /\ o \in \hB0 .. \hBF
  BY SMT, <1>4, OpcodesWithForms
<1>6. /\ low \in Bytes /\ Len(low) = d.size
      /\ Truncated(v, d.size) = low
  <2>1. d.size \in 1 .. 8  BY SMT, <1>1
  <2> QED  BY <1>2, <2>1, LowBytesParts
<1> HIDE DEF low
<1>7. b \in Bytes
  <2>1. o8 \in Byte /\ o \in Byte  BY <1>5 DEF Opcodes
  <2> QED  BY <1>6, <2>1, SizedBytes, CatBytes
<1>8. Decode(b) = Insn("MOV", d.size, 8, << RegArg(d.code), ImmArg(low) >>)
  <2>1. Decode(b) = DecodeOpcode(IF d.size = 1 THEN o8 ELSE o, low, d.size, 8)
    BY <1>1, <1>5, <1>6, DecodeSized
  <2> HIDE DEF b
  <2>2. /\ DecodeOpcode(o8, low, d.size, 8)
             = Insn("MOV", d.size, 8, << RegArg(d.code), ImmArg(low) >>)
        /\ DecodeOpcode(o, low, d.size, 8)
             = Insn("MOV", d.size, 8, << RegArg(d.code), ImmArg(low) >>)
    BY <1>4, <1>5, <1>6, MovImmDecodes
  <2> QED  BY <2>1, <2>2
<1> HIDE DEF b
<1>9. SizeOf(line) = d.size /\ AddressSize(ops) = 8
  BY MovShape, Kinds, SizeFromTwo DEF MovOperands
<1>10. [k \in DOMAIN ops |-> Argument(ops[k], SizeOf(line), << >>)]
         = << RegArg(d.code), ImmArg(low) >>
  BY <1>6, <1>9, MovShape, TwoOperands, ArgumentIs DEF MovOperands
<1>11. Meaning(line, << >>) = Insn("MOV", d.size, 8, << RegArg(d.code), ImmArg(low) >>)
  BY <1>9, <1>10, MovShape, MeaningIs DEF MovOperands
<1> QED  BY <1>3, <1>7, <1>8, <1>11, EmitRight

-----------------------------------------------------------------------------
(* MOV of an immediate to an address: the data has the size of the         *)
(* smallest immediate that holds the value, the address that of its        *)
(* register.                                                               *)
LEMMA DecodeLegacy ==
  ASSUME NEW p \in Seq(LegacyPrefixes), NEW o \in Opcodes, NEW rest \in Bytes
  PROVE  Decode(p \o (<< o >> \o rest)) = Opcode(o, rest, p, FALSE)
<1>1. p \in Bytes  BY SMT DEF Bytes, LegacyPrefixes, Byte
<1>2. o \in Byte  BY DEF Opcodes
<1>3. ASSUME NEW r \in Bytes, r = << >>
      PROVE  p \o r \o << o >> \o rest = p \o (<< o >> \o rest)
  <2>1. p \o r = p  BY <1>1, <1>3, CatEmpty
  <2>2. (p \o << o >>) \o rest = p \o (<< o >> \o rest)
    BY <1>1, <1>2, OneByte, CatAssoc
  <2> QED  BY <2>1, <2>2
<1>4. \A r : IsRex(r, FALSE) => Decode(p \o r \o << o >> \o rest) = Opcode(o, rest, p, FALSE)
  BY DecodePrefixed
<1>5. IsRex(<< >>, FALSE)  BY DEF IsRex
<1>6. \A r : r = << >> => Decode(p \o r \o << o >> \o rest) = Opcode(o, rest, p, FALSE)
  BY <1>4, <1>5
<1>7. \A r : r = << >> => p \o r \o << o >> \o rest = p \o (<< o >> \o rest)
  BY <1>3, EmptyBytes
<1> QED  BY <1>6, <1>7

LEMMA AddressPrefixIs ==
  ASSUME NEW r, r.size \in {4, 8}, NEW p, p = AddressPrefix(r),
         NEW o \in Opcodes, NEW rest \in Bytes
  PROVE  /\ p \in Seq(LegacyPrefixes) /\ p \in Bytes
         /\ Decode(p \o (<< o >> \o rest)) = DecodeOpcode(o, rest, Width(o, 4), r.size)
         /\ << \h66 >> \o p \in Seq(LegacyPrefixes)
         /\ Decode((<< \h66 >> \o p) \o (<< o >> \o rest))
              = DecodeOpcode(o, rest, Width(o, 2), r.size)
<1>1. CASE r.size = 4
  <2>1. p = << \h67 >>  BY <1>1 DEF AddressPrefix
  <2>2. << \h66 >> \o << \h67 >> = << \h66, \h67 >>
    <3>1. \h66 \in Byte /\ \h67 \in Byte  BY SMT DEF Byte
    <3> QED  BY <3>1, PairCat
  <2>3. << \h66 >> \o p = << \h66, \h67 >>  BY <2>1, <2>2
  <2>4. p \in Seq(LegacyPrefixes) /\ << \h66 >> \o p \in Seq(LegacyPrefixes)
    BY <2>1, <2>3, PrefixLists
  <2>5. p \in Bytes  BY SMT, <2>4 DEF Bytes, LegacyPrefixes, Byte
  <2>6. Decode(p \o (<< o >> \o rest)) = Opcode(o, rest, p, FALSE)
    BY <2>4, DecodeLegacy
  <2>7. Decode((<< \h66 >> \o p) \o (<< o >> \o rest))
          = Opcode(o, rest, << \h66 >> \o p, FALSE)
    BY <2>4, DecodeLegacy
  <2>8. Opcode(o, rest, p, FALSE) = DecodeOpcode(o, rest, Width(o, 4), 4)
    BY <2>1, OpcodeValues
  <2>9. Opcode(o, rest, << \h66 >> \o p, FALSE) = DecodeOpcode(o, rest, Width(o, 2), 4)
    BY <2>3, OpcodeValues
  <2> QED  BY <1>1, <2>4, <2>5, <2>6, <2>7, <2>8, <2>9
<1>2. CASE r.size = 8
  <2>0. r.size # 4  BY SMT, <1>2
  <2>1. p = << >>  BY <2>0 DEF AddressPrefix
  <2>2. << \h66 >> \in Bytes
    <3>1. \h66 \in Byte  BY SMT DEF Byte
    <3> QED  BY <3>1, OneByte
  <2>3. << \h66 >> \o p = << \h66 >>  BY <2>1, <2>2, CatEmpty
  <2>4. p \in Seq(LegacyPrefixes) /\ << \h66 >> \o p \in Seq(LegacyPrefixes)
    BY <2>1, <2>3, PrefixLists
  <2>5. p \in Bytes  BY <2>1, EmptyBytes
  <2>6. Decode(p \o (<< o >> \o rest)) = Opcode(o, rest, p, FALSE)
    BY <2>4, DecodeLegacy
  <2>7. Decode((<< \h66 >> \o p) \o (<< o >> \o rest))
          = Opcode(o, rest, << \h66 >> \o p, FALSE)
    BY <2>4, DecodeLegacy
  <2>8. Opcode(o, rest, p, FALSE) = DecodeOpcode(o, rest, Width(o, 4), 8)
    BY <2>1, OpcodeValues
  <2>9. Opcode(o, rest, << \h66 >> \o p, FALSE) = DecodeOpcode(o, rest, Width(o, 2), 8)
    BY <2>3, OpcodeValues
  <2> QED  BY <1>2, <2>4, <2>5, <2>6, <2>7, <2>8, <2>9
<1> QED  BY <1>1, <1>2

(* A value fits where it does not exceed, and the smallest such size.      *)
LEMMA FitsIs ==
  ASSUME NEW v \in Immediate, NEW n \in 1 .. 8
  PROVE  Fits(v, n) <=> ~Exceeds(v, n)
<1>1. DOMAIN v = 1 .. 8  BY SMT DEF Immediate
<1> QED  BY SMT, <1>1 DEF Fits, Exceeds

LEMMA SmallestIs ==
  ASSUME NEW v \in Immediate
  PROVE  /\ ~Exceeds(v, 1) => SmallestSize(v) = 1
         /\ Exceeds(v, 1) /\ ~Exceeds(v, 2) => SmallestSize(v) = 2
         /\ Exceeds(v, 1) /\ Exceeds(v, 2) /\ ~Exceeds(v, 4) => SmallestSize(v) = 4
<1>1. /\ Fits(v, 1) <=> ~Exceeds(v, 1)
      /\ Fits(v, 2) <=> ~Exceeds(v, 2)
      /\ Fits(v, 4) <=> ~Exceeds(v, 4)
  <2>1. 1 \in 1 .. 8 /\ 2 \in 1 .. 8 /\ 4 \in 1 .. 8  BY SMT
  <2> QED  BY <2>1, FitsIs
<1>2. ASSUME NEW n \in {1, 2, 4, 8}, Fits(v, n),
             \A m \in {1, 2, 4, 8} : m < n => ~Fits(v, m)
      PROVE  SmallestSize(v) = n
  <2>1. \A k \in {1, 2, 4, 8} :
          Fits(v, k) /\ (\A m \in {1, 2, 4, 8} : m < k => ~Fits(v, m)) => k = n
    <3>1. \A k \in {1, 2, 4, 8} : k < n \/ k = n \/ n < k  BY SMT
    <3> QED  BY <1>2, <3>1
  <2> QED  BY <1>2, <2>1 DEF SmallestSize
<1>3. /\ \A m \in {1, 2, 4, 8} : ~(m < 1)
      /\ \A m \in {1, 2, 4, 8} : m < 2 => m = 1
      /\ \A m \in {1, 2, 4, 8} : m < 4 => m = 1 \/ m = 2
  BY SMT
<1> QED  BY <1>1, <1>2, <1>3

(* C6 and C7 with an address.                                              *)
LEMMA StoreImmDecodes ==
  ASSUME NEW c \in 0 .. 7, c \notin {4, 5}, NEW o \in {\hC6, \hC7},
         NEW low \in Bytes, NEW size \in {1, 2, 4}, Len(low) = size,
         SignExtended(low, size) = low, NEW asize
  PROVE  DecodeOpcode(o, << c >> \o low, size, asize)
           = Insn("MOV", size, asize, << MemArg(c, Zeros(4)), ImmArg(low) >>)
<1>1. o \in HasImm /\ o # \hFE  BY SMT DEF HasImm
<1>2. o \in HasModRM  BY <1>1, OpcodeKinds
<1>3. NameOf(o, 0) = "MOV"
  <2> DEFINE t == << \hC6, 0, "MOV" >>
  <2>1. t \in Groups  BY DEF Groups
  <2>2. t[1] = \hC6 /\ t[2] = 0 /\ t[3] = "MOV"  BY SMT
  <2>3. o \in {t[1], t[1] + 1}  BY SMT, <2>2
  <2> HIDE DEF t
  <2> QED  BY <1>1, <2>1, <2>2, <2>3, GroupNames
<1>4. c = RM(0, 0, c)  BY SMT DEF RM
<1>5. 0 \in 0 .. 7  BY SMT
<1>6. DecodeOpcode(o, << RM(0, 0, c) >> \o low, size, asize)
        = DecodeFields(o, 0, MemArg(c, Zeros(4)), low, size, asize)
  BY <1>2, <1>5, AddressFields
<1>7. Len(low) = IF o \in HasImm THEN ImmWidth(size) ELSE 0
  <2>1. size # 8  BY SMT
  <2> QED  BY <1>1, <2>1 DEF ImmWidth
<1>8. DecodeFields(o, 0, MemArg(c, Zeros(4)), low, size, asize)
        = Insn("MOV", size, asize, Arguments(o, 0, MemArg(c, Zeros(4)), low, size))
  <2>1. "MOV" # "undecodable" /\ "MOV" \notin {"CALL", "JMP"}  BY SMT
  <2> QED  BY <1>3, <1>7, <2>1, ArgKinds, FieldsDecoded
<1>9. Arguments(o, 0, MemArg(c, Zeros(4)), low, size)
        = << MemArg(c, Zeros(4)), ImmArg(low) >>
  BY <1>1, ArgumentsAre
<1>10. DecodeOpcode(o, << c >> \o low, size, asize)
         = DecodeOpcode(o, << RM(0, 0, c) >> \o low, size, asize)
  BY <1>4
<1> QED  BY <1>6, <1>8, <1>9, <1>10

LEMMA BytesAt == \A t \in Bytes : \A k \in 1 .. Len(t) : t[k] \in Byte
  BY SMT DEF Bytes

LEMMA TripleIs ==
  ASSUME NEW x \in Byte, NEW y \in Byte, NEW low \in Bytes, Len(low) = 1
  PROVE  << x, y, low[1] >> = << x >> \o (<< y >> \o low)
<1> DEFINE t == << y >> \o low
           u == << x >> \o t
<1>1. t \in Bytes /\ Len(t) = 2 /\ t[1] = y /\ t[2] = low[1]
  <2>1. /\ t \in Bytes /\ t[1] = y /\ Len(t) = 1 + Len(low)
        /\ \A k \in 1 .. Len(low) : t[1 + k] = low[k]
    BY FirstOfTwo
  <2> HIDE DEF t
  <2> QED  BY SMT, <2>1
<1> HIDE DEF t
<1>2. u \in Bytes /\ Len(u) = 3 /\ u[1] = x /\ u[2] = y /\ u[3] = low[1]
  <2>1. /\ u \in Bytes /\ u[1] = x /\ Len(u) = 1 + Len(t)
        /\ \A k \in 1 .. Len(t) : u[1 + k] = t[k]
    BY <1>1, FirstOfTwo
  <2> HIDE DEF u
  <2> QED  BY SMT, <1>1, <2>1
<1> HIDE DEF u
<1>3. low[1] \in Byte
  <2>1. 1 \in 1 .. Len(low)  BY SMT
  <2> QED  BY <2>1, BytesAt
<1>4. u = << x, y, low[1] >>  BY SMT, <1>2, <1>3 DEF Bytes
<1> QED  BY <1>4 DEF t, u

LEMMA QuadIs ==
  ASSUME NEW x \in Byte, NEW y \in Byte, NEW low \in Bytes, Len(low) = 2
  PROVE  << x, y, low[1], low[2] >> = << x >> \o (<< y >> \o low)
<1> DEFINE t == << y >> \o low
           u == << x >> \o t
<1>1. t \in Bytes /\ Len(t) = 3 /\ t[1] = y /\ t[2] = low[1] /\ t[3] = low[2]
  <2>1. /\ t \in Bytes /\ t[1] = y /\ Len(t) = 1 + Len(low)
        /\ \A k \in 1 .. Len(low) : t[1 + k] = low[k]
    BY FirstOfTwo
  <2> HIDE DEF t
  <2> QED  BY SMT, <2>1
<1> HIDE DEF t
<1>2. /\ u \in Bytes /\ Len(u) = 4 /\ u[1] = x /\ u[2] = y
      /\ u[3] = low[1] /\ u[4] = low[2]
  <2>1. /\ u \in Bytes /\ u[1] = x /\ Len(u) = 1 + Len(t)
        /\ \A k \in 1 .. Len(t) : u[1 + k] = t[k]
    BY <1>1, FirstOfTwo
  <2> HIDE DEF u
  <2> QED  BY SMT, <1>1, <2>1
<1> HIDE DEF u
<1>3. low[1] \in Byte /\ low[2] \in Byte  BY SMT DEF Bytes
<1>4. u = << x, y, low[1], low[2] >>  BY SMT, <1>2, <1>3 DEF Bytes
<1> QED  BY <1>4 DEF t, u

LEMMA MovMemImmDecodes ==
  ASSUME NEW d, Low(d), d.code \notin {4, 5}, NEW v \in Immediate,
         NEW e, e = MovMemImm(d, v), ~e.err
  PROVE  LET n == SmallestSize(v)
         IN  \E b \in Bytes :
               /\ e = Emit(b)
               /\ Decode(b) = Insn("MOV", n, d.size,
                                   << MemArg(d.code, Zeros(4)), ImmArg(Truncated(v, n)) >>)
<1> DEFINE n == SmallestSize(v)
           p == AddressPrefix(d)
           Wanted(m) == Insn("MOV", m, d.size,
                             << MemArg(d.code, Zeros(4)), ImmArg(Truncated(v, m)) >>)
<1>1. ~Exceeds(v, 4) /\ ~(d.size <= 2)
  <2>1. SUFFICES ASSUME Exceeds(v, 4) \/ d.size <= 2 PROVE FALSE
    OBVIOUS
  <2>2. Exceeds(v, 4) => Exceeds(v, 1) /\ Exceeds(v, 2)
    BY SMT DEF Exceeds
  <2>3. d.size <= 2 => ~(d.size > 2)
    BY SMT, LowParts
  <2>4. MovMemImm(d, v) = Reject
    BY Zenon, <2>1, <2>2, <2>3 DEF MovMemImm
  <2> QED  BY <2>4, Rejected
<1>2. d.code \in 0 .. 7 /\ d.size \in {4, 8} /\ d.size > 2 /\ d.code \in Byte
  <2>1. d.code \in 0 .. 7 /\ d.size \in {1, 2, 4, 8}  BY LowParts
  <2>2. d.size \in {4, 8} /\ d.size > 2  BY SMT, <1>1, <2>1
  <2>3. d.code \in Byte  BY SMT, <2>1 DEF Byte
  <2> QED  BY <2>1, <2>2, <2>3
<1>3. ASSUME NEW m \in {1, 2, 4}
      PROVE  /\ LowBytes(v, m) \in Bytes /\ Len(LowBytes(v, m)) = m
             /\ SignExtended(LowBytes(v, m), m) = LowBytes(v, m)
             /\ Truncated(v, m) = LowBytes(v, m)
             /\ \A k \in 1 .. m : LowBytes(v, m)[k] = v[k]
             /\ << d.code >> \o LowBytes(v, m) \in Bytes
  <2>1. m \in 1 .. 8  BY SMT
  <2>2. LowBytes(v, m) \in Bytes  BY <2>1, LowBytesParts
  <2>3. << d.code >> \o LowBytes(v, m) \in Bytes
    BY <1>2, <2>2, OneByte, CatBytes
  <2> QED  BY <2>1, <2>3, LowBytesParts, SignExtendedSame
<1>4. /\ \hC6 \in Opcodes /\ \hC6 \in ByteForms /\ \hC6 \in Byte
      /\ \hC7 \in Opcodes /\ \hC7 \notin ByteForms /\ \hC7 \in Byte
  BY SMT, OpcodesWithForms DEF Byte
<1>5. ASSUME NEW o \in {\hC6, \hC7}, NEW m \in {1, 2, 4}
      PROVE  DecodeOpcode(o, << d.code >> \o LowBytes(v, m), m, d.size) = Wanted(m)
  BY <1>2, <1>3, <1>5, StoreImmDecodes
<1> HIDE DEF Wanted
<1>6. /\ p \in Bytes
      /\ \A rest \in Bytes : Decode(p \o (<< \hC6 >> \o rest))
                              = DecodeOpcode(\hC6, rest, 1, d.size)
      /\ \A rest \in Bytes : Decode(p \o (<< \hC7 >> \o rest))
                              = DecodeOpcode(\hC7, rest, 4, d.size)
      /\ \A rest \in Bytes : Decode((<< \h66 >> \o p) \o (<< \hC7 >> \o rest))
                              = DecodeOpcode(\hC7, rest, 2, d.size)
  <2>1. Width(\hC6, 4) = 1 /\ Width(\hC7, 4) = 4 /\ Width(\hC7, 2) = 2
    BY <1>4 DEF Width
  <2>2. ASSUME NEW o \in Opcodes, NEW rest \in Bytes
        PROVE  /\ p \in Bytes
               /\ Decode(p \o (<< o >> \o rest)) = DecodeOpcode(o, rest, Width(o, 4), d.size)
               /\ Decode((<< \h66 >> \o p) \o (<< o >> \o rest))
                    = DecodeOpcode(o, rest, Width(o, 2), d.size)
    BY <1>2, AddressPrefixIs
  <2>3. ASSUME NEW o, o = \hC6, NEW rest \in Bytes
        PROVE  Decode(p \o (<< o >> \o rest)) = DecodeOpcode(o, rest, 1, d.size)
    BY <1>4, <2>1, <2>2, <2>3
  <2>4. ASSUME NEW o, o = \hC7, NEW rest \in Bytes
        PROVE  /\ Decode(p \o (<< o >> \o rest)) = DecodeOpcode(o, rest, 4, d.size)
               /\ Decode((<< \h66 >> \o p) \o (<< o >> \o rest))
                    = DecodeOpcode(o, rest, 2, d.size)
    BY <1>4, <2>1, <2>2, <2>4
  <2>5. p \in Bytes  BY <1>4, <2>2, EmptyBytes
  <2> QED  BY <2>3, <2>4, <2>5
<1> HIDE DEF p
<1>7. CASE ~Exceeds(v, 1)
  <2> DEFINE low == LowBytes(v, 1)
             t == << \hC6, d.code, v[1] >>
             u == << \hC6 >> \o (<< d.code >> \o low)
  <2>1. n = 1  BY <1>7, SmallestIs
  <2>2. e = Emit(p \o t)  BY <1>1, <1>2, <1>7 DEF MovMemImm, p
  <2>3. /\ low \in Bytes /\ Len(low) = 1 /\ low[1] = v[1]
        /\ << d.code >> \o low \in Bytes
    <3>1. 1 \in 1 .. 1 /\ 1 \in {1, 2, 4}  BY SMT
    <3> QED  BY <1>3, <3>1
  <2> HIDE DEF low
  <2>4. t = u
    <3>1. << \hC6, d.code, low[1] >> = << \hC6 >> \o (<< d.code >> \o low)
      BY <1>2, <1>4, <2>3, TripleIs
    <3> QED  BY <2>3, <3>1
  <2>5. u \in Bytes  BY <1>4, <2>3, OneByte, CatBytes
  <2>6. Decode(p \o u) = DecodeOpcode(\hC6, << d.code >> \o low, 1, d.size)
    BY <1>6, <2>3
  <2>7. DecodeOpcode(\hC6, << d.code >> \o low, 1, d.size) = Wanted(1)
    BY <1>5 DEF low
  <2> HIDE DEF t, u
  <2>8. p \o u \in Bytes  BY <1>6, <2>5, CatBytes
  <2>9. e = Emit(p \o u) /\ Decode(p \o u) = Wanted(n)
    BY <2>1, <2>2, <2>4, <2>6, <2>7 DEF u
  <2> QED  BY <2>8, <2>9 DEF Wanted
<1>8. CASE Exceeds(v, 1) /\ ~Exceeds(v, 2)
  <2> DEFINE low == LowBytes(v, 2)
             t == << \hC7, d.code, v[1], v[2] >>
             u == << \hC7 >> \o (<< d.code >> \o low)
             q == << \h66 >> \o p
  <2>1. n = 2  BY <1>8, SmallestIs
  <2>2. e = Emit(q \o t)  BY <1>1, <1>2, <1>8 DEF MovMemImm, p
  <2>3. /\ low \in Bytes /\ Len(low) = 2 /\ low[1] = v[1] /\ low[2] = v[2]
        /\ << d.code >> \o low \in Bytes
    <3>1. 1 \in 1 .. 2 /\ 2 \in 1 .. 2 /\ 2 \in {1, 2, 4}  BY SMT
    <3> QED  BY <1>3, <3>1
  <2> HIDE DEF low
  <2>4. t = u
    <3>1. << \hC7, d.code, low[1], low[2] >> = << \hC7 >> \o (<< d.code >> \o low)
      BY <1>2, <1>4, <2>3, QuadIs
    <3> QED  BY <2>3, <3>1
  <2>5. u \in Bytes  BY <1>4, <2>3, OneByte, CatBytes
  <2>6. Decode(q \o u) = DecodeOpcode(\hC7, << d.code >> \o low, 2, d.size)
    BY <1>6, <2>3
  <2>7. DecodeOpcode(\hC7, << d.code >> \o low, 2, d.size) = Wanted(2)
    BY <1>5 DEF low
  <2>8. q \in Bytes
    <3>1. \h66 \in Byte  BY SMT DEF Byte
    <3> QED  BY <1>6, <3>1, OneByte, CatBytes
  <2> HIDE DEF t, u, q
  <2>9. q \o u \in Bytes  BY <2>5, <2>8, CatBytes
  <2>10. e = Emit(q \o u) /\ Decode(q \o u) = Wanted(n)
    BY <2>1, <2>2, <2>4, <2>6, <2>7 DEF u, q
  <2> QED  BY <2>9, <2>10 DEF Wanted
<1>9. CASE Exceeds(v, 1) /\ Exceeds(v, 2)
  <2> DEFINE low == LowBytes(v, 4)
             t == << \hC7, d.code >>
             u == << \hC7 >> \o (<< d.code >> \o low)
  <2>1. n = 4  BY <1>1, <1>9, SmallestIs
  <2>2. e = Emit(p \o t \o low)  BY <1>1, <1>2, <1>9 DEF MovMemImm, p
  <2>3. low \in Bytes /\ << d.code >> \o low \in Bytes  BY <1>3
  <2> HIDE DEF low
  <2>4. p \o t \o low = p \o u
    <3>1. << \hC7 >> \in Bytes /\ << d.code >> \in Bytes  BY <1>2, <1>4, OneByte
    <3>2. t = << \hC7 >> \o << d.code >>  BY <1>2, <1>4, PairCat
    <3>3. t \in Bytes  BY <1>2, <1>4, TwoBytes
    <3>4. t \o low = u  BY <2>3, <3>1, <3>2, CatAssoc
    <3> HIDE DEF t, u
    <3>5. (p \o t) \o low = p \o (t \o low)  BY <1>6, <2>3, <3>3, CatAssoc
    <3> QED  BY <3>4, <3>5
  <2>5. u \in Bytes  BY <1>4, <2>3, OneByte, CatBytes
  <2>6. Decode(p \o u) = DecodeOpcode(\hC7, << d.code >> \o low, 4, d.size)
    BY <1>6, <2>3
  <2>7. DecodeOpcode(\hC7, << d.code >> \o low, 4, d.size) = Wanted(4)
    BY <1>5 DEF low
  <2> HIDE DEF t, u
  <2>8. p \o u \in Bytes  BY <1>6, <2>5, CatBytes
  <2>9. e = Emit(p \o u) /\ Decode(p \o u) = Wanted(n)
    BY <2>1, <2>2, <2>4, <2>6, <2>7 DEF u
  <2> QED  BY <2>8, <2>9 DEF Wanted
<1> QED  BY <1>7, <1>8, <1>9

LEMMA MovMemImmRight ==
  ASSUME NEW line, MovOperands(line), NEW e, ~e.err,
         IsMem(line.operands[1]), IsImm(line.operands[2]),
         e = MovMemImm(line.operands[1].value, line.operands[2].value)
  PROVE  Right(line, e)
<1> DEFINE ops == line.operands
           d == ops[1].value
           v == ops[2].value
           n == SmallestSize(v)
           args == << MemArg(d.code, Zeros(4)), ImmArg(Truncated(v, n)) >>
<1>1. ops[1].displacement = 0
  BY MovShape DEF MisreadsAddress
<1>2. Low(d) /\ d.code \notin {4, 5}
  BY <1>1, MovShape, LowOperand DEF StackBase
<1>3. v \in Immediate  BY MovShape, ImmediateValue DEF IsImm
<1>4. PICK b \in Bytes : e = Emit(b) /\ Decode(b) = Insn("MOV", n, d.size, args)
  BY <1>2, <1>3, MovMemImmDecodes
<1>5. RegisterSizes(ops) = {}  BY MovShape, Kinds DEF RegisterSizes
<1>6. SizeOf(line) = n
  <2>1. line.mnemonic = "MOV" /\ line.mnemonic # "INC"
    BY SMT DEF MovOperands
  <2> QED  BY <1>5, <2>1, MovShape DEF SizeOf
<1>7. AddressSize(ops) = d.size
  <2>1. {ops[k] : k \in DOMAIN ops} = {ops[1], ops[2]}  BY MovShape
  <2>2. ~IsMem(ops[2])  BY Kinds
  <2>3. (CHOOSE op \in {ops[1], ops[2]} : IsMem(op)) = ops[1]  BY <2>2
  <2>4. 1 \in DOMAIN ops  BY MovShape
  <2> QED  BY <2>1, <2>3, <2>4 DEF AddressSize
<1>8. [k \in DOMAIN ops |-> Argument(ops[k], SizeOf(line), << >>)] = args
  <2>1. Argument(ops[1], n, << >>) = MemArg(d.code, Zeros(4))
    BY <1>1, ArgumentIs, LE4Parts
  <2>2. Argument(ops[2], n, << >>) = ImmArg(Truncated(v, n))
    BY ArgumentIs
  <2> QED  BY <1>6, <2>1, <2>2, MovShape, TwoOperands DEF MovOperands
<1> HIDE DEF n, args
<1>9. Meaning(line, << >>) = Insn("MOV", n, d.size, args)
  BY <1>6, <1>7, <1>8, MovShape, MeaningIs DEF MovOperands
<1> QED  BY <1>4, <1>9, EmitRight

-----------------------------------------------------------------------------
(* A register with an address, MOV and LEA: both have one size.            *)
LEMMA LoadOpcode ==
  ASSUME NEW o \in Opcodes, o \in ToReg, o \notin ByteForms,
         NEW size \in {4, 8}, NEW rest \in Bytes,
         NEW p, p = IF size = 4 THEN << \h67, o >> ELSE << \h48, o >>
  PROVE  /\ p \in Bytes
         /\ Decode(p \o rest) = DecodeOpcode(o, rest, size, size)
<1>1. o \in Byte /\ \h67 \in Byte /\ \h48 \in Byte  BY SMT DEF Opcodes, Byte
<1>2. p \in Bytes  BY <1>1, TwoBytes
<1>3. Width(o, 4) = 4 /\ Width(o, 8) = 8  BY DEF Width
<1>4. CASE size = 4  BY <1>2, <1>3, <1>4, DecodeBehind
<1>5. CASE size = 8
  <2>1. size # 4  BY SMT, <1>5
  <2> QED  BY <1>2, <1>3, <1>5, <2>1, DecodeBehind
<1> QED  BY <1>4, <1>5

LEMMA LoadFields ==
  ASSUME NEW o \in ToReg, NEW reg, NEW arg, arg # NoArg, NEW size, NEW asize,
         NEW name, name = NameOf(o, reg), name \notin {"CALL", "JMP", "undecodable"}
  PROVE  DecodeFields(o, reg, arg, << >>, size, asize)
           = Insn(name, size, asize, << RegArg(reg), arg >>)
<1>1. o \notin HasImm  BY OpcodeKinds
<1>2. Len(<< >>) = 0  BY SMT
<1>3. Len(<< >>) = IF o \in HasImm THEN ImmWidth(size) ELSE 0
  BY <1>1, <1>2
<1> QED  BY <1>3, FieldsDecoded, ArgumentsAre

LEMMA LoadRight ==
  ASSUME NEW line, line.operands \in Operands, Len(line.operands) = 2,
         line.mnemonic \notin Jumps,
         line.mnemonic \notin {"NOP", "HLT", "SYSCALL", "RET", "INT"},
         NEW r, r = line.operands[1].value, NEW op, op = line.operands[2],
         IsReg(line.operands[1]), Low(r), r.size \in {4, 8},
         IsMem(op), ~Extended(op), ~StackBase(op), op.value.size = r.size,
         NEW o \in Opcodes, o \in ToReg, o \notin ByteForms,
         line.mnemonic = NameOf(o, r.code), line.mnemonic # "undecodable",
         NEW p, p = IF r.size = 4 THEN << \h67, o >> ELSE << \h48, o >>
  PROVE  Right(line, Emit(p \o WithDisplacement(TwoRegisterMagic(op.value, r),
                                                 op.displacement)))
<1> DEFINE ops == line.operands
           x == TwoRegisterMagic(op.value, r)
           w == WithDisplacement(x, op.displacement)
           args == << RegArg(r.code), MemoryOf(op) >>
<1>1. ops[1] \in Operand /\ op \in Operand /\ DOMAIN ops = {1, 2}
  BY TwoOperands
<1>2. r.code \in 0 .. 7 /\ op.value.code \in 0 .. 7 /\ Low(op.value)
  BY <1>1, LowOperand, LowParts
<1>3. x = RM(0, r.code, op.value.code)
  <2>1. x = 8 * r.code + op.value.code  BY <1>2, MagicIs
  <2> QED  BY SMT, <1>2, <2>1 DEF RM
<1> HIDE DEF x
<1>4. o \in HasModRM  BY OpcodeKinds
<1>5. /\ w \in Bytes
      /\ DecodeOpcode(o, w, r.size, r.size)
           = DecodeFields(o, r.code, MemoryOf(op), << >>, r.size, r.size)
  BY <1>1, <1>2, <1>3, <1>4, AddressOperand
<1> HIDE DEF w
<1>6. p \in Bytes /\ Decode(p \o w) = DecodeOpcode(o, w, r.size, r.size)
  BY <1>5, LoadOpcode
<1>7. DecodeFields(o, r.code, MemoryOf(op), << >>, r.size, r.size)
        = Insn(line.mnemonic, r.size, r.size, args)
  <2>1. MemoryOf(op) # NoArg  BY ArgKinds DEF MemoryOf
  <2>2. line.mnemonic \notin {"CALL", "JMP", "undecodable"}
    BY DEF Jumps
  <2> QED  BY <2>1, <2>2, LoadFields
<1>8. SizeOf(line) = r.size /\ AddressSize(ops) = r.size
  BY <1>1, Kinds, SizeFromTwo
<1>9. [k \in DOMAIN ops |-> Argument(ops[k], SizeOf(line), << >>)] = args
  BY TwoOperands, ArgumentIs DEF MemoryOf
<1> HIDE DEF args
<1>10. Meaning(line, << >>) = Insn(line.mnemonic, r.size, r.size, args)
  <2>1. line.mnemonic \notin {"RET", "INT"}  OBVIOUS
  <2> QED  BY <1>8, <1>9, <2>1, MeaningIs
<1>11. p \o w \in Bytes  BY <1>5, <1>6, CatBytes
<1> QED  BY <1>5, <1>6, <1>7, <1>10, <1>11, EmitRight DEF w, x

LEMMA MovLoadRight ==
  ASSUME NEW line, MovOperands(line), NEW e, ~e.err,
         IsReg(line.operands[1]), IsMem(line.operands[2]),
         e = MovRegMem(line.operands[1], line.operands[2])
  PROVE  Right(line, e)
<1> DEFINE op1 == line.operands[1]
           op2 == line.operands[2]
           d == op1.value
           s == op2.value
           p == IF d.size = 4 THEN << \h67, \h8B >> ELSE << \h48, \h8B >>
           w == WithDisplacement(TwoRegisterMagic(s, d), op2.displacement)
<1>1. op2.displacement = 0 /\ d.size = s.size
  BY MovShape DEF MisreadsAddress, Loads, SameSizes
<1>2. op1.displacement = 0
  <2>1. op1.type = "REGISTER" /\ ~op1.indirect /\ op1 \in Operand
    BY MovShape DEF IsReg
  <2> QED  BY SMT, <2>1 DEF Operand, RegisterOperand, ImmediateOperand,
                StringOperand, LabelOperand
<1>3. Low(d) /\ Low(s)  BY MovShape, LowOperand
<1>4. d.size \in {4, 8}
  <2>1. ~(d.size <= 2)  BY Rejected DEF MovRegMem
  <2>2. d.size \in {1, 2, 4, 8}  BY <1>3, LowParts
  <2> QED  BY SMT, <2>1, <2>2
<1>5. e = Emit(p \o w)
  <2>1. e = Emit(MovPrefix(s) \o << MovOpcode(op1.indirect, s) >> \o w)
    BY <1>1, <1>2, Rejected DEF MovRegMem
  <2>2. MovOpcode(op1.indirect, s) = \h8B
    <3>1. s.size # 1  BY SMT, <1>1, <1>4
    <3> QED  BY <3>1 DEF MovOpcode, IsReg
  <2>3. /\ d.size = 4 => MovPrefix(s) = << \h67 >>
        /\ d.size = 8 => MovPrefix(s) = << \h48 >>
    BY SMT, <1>1 DEF MovPrefix
  <2>4. /\ << \h67 >> \o << \h8B >> = << \h67, \h8B >>
        /\ << \h48 >> \o << \h8B >> = << \h48, \h8B >>
    <3>1. \h67 \in Byte /\ \h48 \in Byte /\ \h8B \in Byte  BY SMT DEF Byte
    <3> QED  BY <3>1, PairCat
  <2>5. MovPrefix(s) \o << \h8B >> = p
    <3>1. CASE d.size = 4  BY <2>3, <2>4, <3>1
    <3>2. CASE d.size = 8
      <4>1. d.size # 4  BY SMT, <3>2
      <4> QED  BY <2>3, <2>4, <3>2, <4>1
    <3> QED  BY <1>4, <3>1, <3>2
  <2> QED  BY <2>1, <2>2, <2>5
<1>6. ASSUME NEW o, o = \h8B
      PROVE  /\ o \in Opcodes /\ o \in ToReg /\ o \notin ByteForms
             /\ NameOf(o, d.code) = "MOV"
  <2>1. o \in Opcodes /\ o \in ToReg /\ o \notin ByteForms
    BY SMT, <1>6, OpcodesWithForms DEF ToReg
  <2>2. o \in {\h88, \h89, \h8A, \h8B}  BY <1>6
  <2> QED  BY <2>1, <2>2, DirectNames
<1>7. "MOV" # "undecodable"  BY SMT
<1>8. ASSUME NEW o, o = \h8B,
             NEW q, q = IF d.size = 4 THEN << \h67, o >> ELSE << \h48, o >>
      PROVE  Right(line, Emit(q \o w))
  BY <1>1, <1>3, <1>4, <1>6, <1>7, <1>8, MovShape, LoadRight DEF MovOperands
<1> QED  BY <1>5, <1>8

LEMMA LeaRight ==
  ASSUME NEW line \in Line, ~Misencoded(line), line.mnemonic = "LEA",
         NEW e, e = LEA(line.operands), ~e.err
  PROVE  Right(line, e)
<1> DEFINE ops == line.operands
           op1 == ops[1]
           op2 == ops[2]
           r == op1.value
           p == LeaPrefix(r)
<1>1. /\ Len(ops) = 2
      /\ ~\E k \in 1 .. Len(ops) : \/ Extended(ops[k])
                                   \/ /\ ops[k].type = "REGISTER"
                                      /\ ops[k].value.size <= 2
      /\ IsReg(op1)
      /\ \/ IsMem(op2) /\ r.size = op2.value.size
         \/ IsLabel(op2) /\ op2.indirect
  BY Rejected DEF LEA
<1>2. ops \in Operands /\ op1 \in Operand /\ op2 \in Operand /\ DOMAIN ops = {1, 2}
  <2>1. ops \in Operands  BY DEF Line
  <2> QED  BY <1>1, <2>1, TwoOperands
<1>3. /\ ~Extended(op1) /\ ~Extended(op2)
      /\ ~(r.size <= 2) /\ ~StackBase(op2)
  <2>1. 1 \in 1 .. Len(ops)  BY SMT, <1>1
  <2>2. ~HasExtended(ops) /\ ~HasStackBase(ops)  BY DEF Misencoded
  <2>3. ~(r.size <= 2)  BY <1>1, <2>1 DEF IsReg
  <2> QED  BY <1>2, <2>2, <2>3 DEF HasExtended, HasStackBase
<1>4. Low(r) /\ r.size \in {4, 8} /\ r.code \in 0 .. 7
  <2>1. Low(r)  BY <1>1, <1>2, <1>3, LowOperand
  <2> QED  BY SMT, <1>3, <2>1, LowParts
<1>5. ASSUME NEW o, o = \h8D
      PROVE  /\ o \in Opcodes /\ o \in ToReg /\ o \notin ByteForms
             /\ NameOf(o, r.code) = "LEA"
             /\ p = IF r.size = 4 THEN << \h67, o >> ELSE << \h48, o >>
  <2>1. o \in Opcodes /\ o \in ToReg /\ o \notin ByteForms
    BY SMT, <1>5, OpcodesWithForms DEF ToReg
  <2> QED  BY <1>5, <2>1, DirectNames DEF LeaPrefix
<1>6. /\ line.mnemonic \notin Jumps
      /\ line.mnemonic \notin {"NOP", "HLT", "SYSCALL", "RET", "INT"}
      /\ line.mnemonic # "undecodable"
  BY SMT DEF Jumps
<1>7. CASE IsMem(op2)
  <2> DEFINE w == WithDisplacement(TwoRegisterMagic(op2.value, r), op2.displacement)
  <2>1. r.size = op2.value.size  BY <1>1, <1>7, Kinds
  <2>2. e = Emit(p \o w)
    <3>1. ~IsLabel(op2)  BY <1>7, Kinds
    <3> QED  BY <1>1, <1>7, <2>1, <3>1 DEF LEA
  <2>3. ASSUME NEW o, o = \h8D
        PROVE  Right(line, Emit(p \o w))
    <3> HIDE DEF p
    <3> QED  BY <1>1, <1>2, <1>3, <1>4, <1>5, <1>6, <1>7, <2>1, <2>3, LoadRight
  <2> QED  BY <2>2, <2>3
<1>8. CASE IsLabel(op2) /\ op2.indirect
  <2> DEFINE y == 5 + 8 * r.code
             m == Marker(4)
             args == << RegArg(r.code), RipArg(m) >>
  <2>1. e = EmitRef(p \o << y >>, op2.value, "RELATIVE", 4)
    <3>1. ~IsMem(op2)  BY <1>8, Kinds
    <3> QED  BY <1>1, <1>8, <3>1 DEF LEA
  <2>2. y = RM(0, r.code, 5) /\ y \in Byte  BY SMT, <1>4 DEF RM, Byte
  <2>3. m \in Bytes /\ Len(m) = 4 /\ m \o << >> = m  BY MarkerParts, CatEmpty
  <2> HIDE DEF p, y, m
  <2>4. << y >> \in Bytes /\ << y >> \o m \in Bytes
    BY <2>2, <2>3, OneByte, CatBytes
  <2>5. ASSUME NEW o, o = \h8D
        PROVE  /\ p \in Bytes
               /\ Decode(p \o (<< y >> \o m))
                    = Insn("LEA", r.size, r.size, args)
    <3>1. p \in Bytes /\ Decode(p \o (<< y >> \o m))
                           = DecodeOpcode(o, << y >> \o m, r.size, r.size)
      BY <1>4, <1>5, <2>4, <2>5, LoadOpcode
    <3>2. \A t \in Bytes :
            DecodeOpcode(o, << y >> \o (m \o t), r.size, r.size)
              = DecodeFields(o, r.code, RipArg(m), t, r.size, r.size)
      <4>1. o \in HasModRM  BY <1>5, <2>5, OpcodeKinds
      <4> QED  BY <1>4, <2>2, <2>3, <4>1, RelativeFields
    <3>3. DecodeOpcode(o, << y >> \o m, r.size, r.size)
            = DecodeFields(o, r.code, RipArg(m), << >>, r.size, r.size)
      BY <2>3, <3>2, EmptyBytes
    <3>4. DecodeFields(o, r.code, RipArg(m), << >>, r.size, r.size)
            = Insn("LEA", r.size, r.size, args)
      <4>1. "LEA" \notin {"CALL", "JMP", "undecodable"}  BY SMT
      <4> QED  BY <1>5, <2>5, <4>1, ArgKinds, LoadFields
    <3> QED  BY <3>1, <3>3, <3>4
  <2>6. p \in Bytes /\ Decode(p \o (<< y >> \o m)) = Insn("LEA", r.size, r.size, args)
    BY <2>5
  <2>7. ~IsMem(op2) /\ ~IsReg(op2)  BY <1>8, Kinds
  <2>8. SizeOf(line) = r.size /\ AddressSize(ops) = r.size
    BY <1>1, <1>2, <1>6, <1>8, <2>7, SizeFromTwo
  <2>9. [k \in DOMAIN ops |-> Argument(ops[k], SizeOf(line), m)] = args
    BY <1>1, <1>2, <1>8, TwoOperands, ArgumentIs
  <2> HIDE DEF args
  <2>10. Meaning(line, m) = Insn("LEA", r.size, r.size, args)
    BY <1>6, <2>8, <2>9, MeaningIs
  <2>11. (p \o << y >>) \o m = p \o (<< y >> \o m)
    BY <2>3, <2>4, <2>6, CatAssoc
  <2>12. Decode((p \o << y >>) \o Marker(4)) = Meaning(line, Marker(4))
    BY <2>6, <2>10, <2>11 DEF m
  <2> QED  BY <2>1, <2>12, RefRight
<1> QED  BY <1>1, <1>7, <1>8

LEMMA MovRight ==
  ASSUME NEW line \in Line, ~Misencoded(line), line.mnemonic = "MOV",
         NEW e, e = MOV(line.operands), ~e.err
  PROVE  Right(line, e)
<1> DEFINE ops == line.operands
           op1 == ops[1]
           op2 == ops[2]
<1>1. Len(ops) = 2 /\ ~\E k \in 1 .. Len(ops) : Extended(ops[k])
  BY Rejected DEF MOV
<1>2. MovOperands(line)  BY <1>1 DEF MovOperands
<1>3. ~(IsMem(op1) /\ IsReg(op2)) /\ ~(IsReg(op1) /\ IsLabel(op2))
  BY <1>2, MovShape DEF Stores, MovesLabel
<1>4. CASE IsReg(op1) /\ IsReg(op2)
  <2>1. e = MovRegReg(op1.value, op2.value)
    <3>1. ~IsMem(op1) /\ ~IsMem(op2) /\ ~IsImm(op2) /\ ~IsLabel(op2)  BY <1>4, Kinds
    <3> QED  BY <1>1, <1>4, <3>1 DEF MOV
  <2> QED  BY <1>2, <1>4, <2>1, MovRegRegRight
<1>5. CASE IsReg(op1) /\ IsImm(op2)
  <2>1. e = MovRegImm(op1.value, op2.value)
    <3>1. ~IsMem(op1) /\ ~IsMem(op2) /\ ~IsReg(op2) /\ ~IsLabel(op2)  BY <1>5, Kinds
    <3> QED  BY <1>1, <1>5, <3>1 DEF MOV
  <2> QED  BY <1>2, <1>5, <2>1, MovRegImmRight
<1>6. CASE IsMem(op1) /\ IsImm(op2)
  <2>1. e = MovMemImm(op1.value, op2.value)
    <3>1. ~IsReg(op1) /\ ~IsMem(op2) /\ ~IsReg(op2) /\ ~IsLabel(op2)  BY <1>6, Kinds
    <3> QED  BY <1>1, <1>6, <3>1 DEF MOV
  <2> QED  BY <1>2, <1>6, <2>1, MovMemImmRight
<1>7. CASE IsReg(op1) /\ IsMem(op2)
  <2>1. e = MovRegMem(op1, op2)
    <3>1. ~IsMem(op1) /\ ~IsImm(op2) /\ ~IsReg(op2) /\ ~IsLabel(op2)  BY <1>7, Kinds
    <3> QED  BY <1>1, <1>7, <3>1 DEF MOV
  <2> QED  BY <1>2, <1>7, <2>1, MovLoadRight
<1>8. \/ IsReg(op1) /\ (IsReg(op2) \/ IsImm(op2) \/ IsMem(op2))
      \/ IsMem(op1) /\ IsImm(op2)
  BY <1>1, <1>3, Rejected DEF MOV
<1> QED  BY <1>4, <1>5, <1>6, <1>7, <1>8

-----------------------------------------------------------------------------
(* Every line that is taken and is in no class of Misencoded lines.        *)
LEMMA ArithmeticRight ==
  ASSUME NEW line \in Line, ~Misencoded(line), NEW e, ~e.err,
         \/ line.mnemonic = "ADD" /\ e = ADD(line.operands)
         \/ line.mnemonic = "SUB" /\ e = SUB(line.operands)
         \/ line.mnemonic = "CMP" /\ e = CMP(line.operands)
  PROVE  Right(line, e)
<1>1. ASSUME NEW t \in AluRows, line.mnemonic = t[5], NEW rr8, NEW rr,
             \/ rr8 = \h00 /\ rr = \h01 /\ t[5] = "ADD"
             \/ rr8 = \h28 /\ rr = \h29 /\ t[5] = "SUB"
             \/ rr8 = \h38 /\ rr = \h39 /\ t[5] = "CMP",
             NEW otherwise, otherwise.err \/ line.mnemonic = "CMP",
             e = Alu(line.operands, rr8, rr, t[1], t[2], t[3], otherwise)
      PROVE  Right(line, e)
  <2>1. /\ rr8 \in Opcodes /\ rr8 \in ByteForms /\ rr8 \in ToRM
        /\ rr \in Opcodes /\ rr \notin ByteForms /\ rr \in ToRM
    <3>1. rr8 \in {\h00, \h28, \h38} /\ rr \in {\h01, \h29, \h39}  BY <1>1
    <3> QED  BY SMT, <3>1, OpcodesWithForms DEF ToRM
  <2>2. \A reg : NameOf(rr8, reg) = t[5] /\ NameOf(rr, reg) = t[5]
    <3>1. /\ t[5] = "ADD" => rr8 \in {\h00, \h01} /\ rr \in {\h00, \h01}
          /\ t[5] = "SUB" => rr8 \in {\h28, \h29} /\ rr \in {\h28, \h29}
          /\ t[5] = "CMP" => rr8 \in {\h38, \h39} /\ rr \in {\h38, \h39}
      BY SMT, <1>1
    <3> QED  BY <1>1, <3>1, DirectNames
  <2> QED  BY <1>1, <2>1, <2>2, AluRight
<1>2. CASE line.mnemonic = "ADD" /\ e = ADD(line.operands)
  <2> DEFINE t == << \h04, \h05, \hC0, 0, "ADD" >>
  <2>1. t \in AluRows  BY DEF AluRows
  <2>2. t[1] = \h04 /\ t[2] = \h05 /\ t[3] = \hC0 /\ t[5] = "ADD"  BY SMT
  <2> HIDE DEF t
  <2>3. e = Alu(line.operands, \h00, \h01, t[1], t[2], t[3], Reject)
    BY <1>2, <2>2 DEF ADD
  <2> QED  BY <1>1, <1>2, <2>1, <2>2, <2>3, Rejected
<1>3. CASE line.mnemonic = "SUB" /\ e = SUB(line.operands)
  <2> DEFINE t == << \h2C, \h2D, \hE8, 5, "SUB" >>
  <2>1. t \in AluRows  BY DEF AluRows
  <2>2. t[1] = \h2C /\ t[2] = \h2D /\ t[3] = \hE8 /\ t[5] = "SUB"  BY SMT
  <2> HIDE DEF t
  <2>3. e = Alu(line.operands, \h28, \h29, t[1], t[2], t[3], Reject)
    BY <1>3, <2>2 DEF SUB
  <2> QED  BY <1>1, <1>3, <2>1, <2>2, <2>3, Rejected
<1>4. CASE line.mnemonic = "CMP" /\ e = CMP(line.operands)
  <2> DEFINE t == << \h3C, \h3D, \hF8, 7, "CMP" >>
             o == Emit(<< >>)
  <2>1. t \in AluRows  BY DEF AluRows
  <2>2. t[1] = \h3C /\ t[2] = \h3D /\ t[3] = \hF8 /\ t[5] = "CMP"  BY SMT
  <2> HIDE DEF t
  <2>3. e = Alu(line.operands, \h38, \h39, t[1], t[2], t[3], o)
    BY <1>4, <2>2 DEF CMP
  <2> HIDE DEF o
  <2> QED  BY <1>1, <1>4, <2>1, <2>2, <2>3
<1> QED  BY <1>2, <1>3, <1>4

LEMMA OneRegisterRight ==
  ASSUME NEW line \in Line, ~Misencoded(line), NEW e, ~e.err,
         \/ line.mnemonic = "DEC" /\ e = DEC(line.operands)
         \/ line.mnemonic = "MUL" /\ e = MUL(line.operands)
         \/ line.mnemonic = "DIV" /\ e = DIV(line.operands)
  PROVE  Right(line, e)
<1>1. CASE line.mnemonic = "DEC" /\ e = DEC(line.operands)
  <2> DEFINE t == << \hFE, \hFF, \hC8, 1, "DEC" >>
  <2>1. t \in UnaryRows  BY DEF UnaryRows
  <2>2. t[1] = \hFE /\ t[2] = \hFF /\ t[3] = \hC8 /\ t[5] = "DEC"  BY SMT
  <2> HIDE DEF t
  <2>3. e = Unary(line.operands, t[1], t[2], t[3])  BY <1>1, <2>2 DEF DEC
  <2> QED  BY <1>1, <2>1, <2>2, <2>3, UnaryRight
<1>2. CASE line.mnemonic = "MUL" /\ e = MUL(line.operands)
  <2> DEFINE t == << \hF6, \hF7, \hE0, 4, "MUL" >>
  <2>1. t \in UnaryRows  BY DEF UnaryRows
  <2>2. t[1] = \hF6 /\ t[2] = \hF7 /\ t[3] = \hE0 /\ t[5] = "MUL"  BY SMT
  <2> HIDE DEF t
  <2>3. e = Unary(line.operands, t[1], t[2], t[3])  BY <1>2, <2>2 DEF MUL
  <2> QED  BY <1>2, <2>1, <2>2, <2>3, UnaryRight
<1>3. CASE line.mnemonic = "DIV" /\ e = DIV(line.operands)
  <2> DEFINE t == << \hF6, \hF7, \hF0, 6, "DIV" >>
  <2>1. t \in UnaryRows  BY DEF UnaryRows
  <2>2. t[1] = \hF6 /\ t[2] = \hF7 /\ t[3] = \hF0 /\ t[5] = "DIV"  BY SMT
  <2> HIDE DEF t
  <2>3. e = Unary(line.operands, t[1], t[2], t[3])  BY <1>3, <2>2 DEF DIV
  <2> QED  BY <1>3, <2>1, <2>2, <2>3, UnaryRight
<1> QED  BY <1>1, <1>2, <1>3

LEMMA JumpRight ==
  ASSUME NEW line \in Line, ~Misencoded(line), NEW e, ~e.err,
         \/ line.mnemonic = "CALL" /\ e = CALL(line.operands)
         \/ line.mnemonic = "JMP" /\ e = JMP(line.operands)
         \/ line.mnemonic = "JE" /\ e = JE(line.operands)
         \/ line.mnemonic = "JNE" /\ e = JNE(line.operands)
         \/ line.mnemonic = "JL" /\ e = JL(line.operands)
         \/ line.mnemonic = "JGE" /\ e = JGE(line.operands)
         \/ line.mnemonic = "JLE" /\ e = JLE(line.operands)
         \/ line.mnemonic = "JG" /\ e = JG(line.operands)
  PROVE  Right(line, e)
<1>1. CASE line.mnemonic = "CALL" /\ e = CALL(line.operands)
  <2> DEFINE t == << \hE8, \hD0, 2, "CALL" >>
  <2>1. t \in FarRows  BY DEF FarRows
  <2>2. t[1] = \hE8 /\ t[2] = \hD0 /\ t[4] = "CALL"  BY SMT
  <2> HIDE DEF t
  <2>3. e = FarBranch(line.operands, t[1], t[2])  BY <1>1, <2>2 DEF CALL
  <2> QED  BY <1>1, <2>1, <2>2, <2>3, FarRight
<1>2. CASE line.mnemonic = "JMP" /\ e = JMP(line.operands)
  <2> DEFINE t == << \hE9, \hE0, 4, "JMP" >>
  <2>1. t \in FarRows  BY DEF FarRows
  <2>2. t[1] = \hE9 /\ t[2] = \hE0 /\ t[4] = "JMP"  BY SMT
  <2> HIDE DEF t
  <2>3. e = FarBranch(line.operands, t[1], t[2])  BY <1>2, <2>2 DEF JMP
  <2> QED  BY <1>2, <2>1, <2>2, <2>3, FarRight
<1>3. ASSUME NEW cc, NEW name, << cc, name >> \in ConditionRows,
             line.mnemonic = name, e = Jcc(line.operands, cc)
      PROVE  Right(line, e)
  <2> DEFINE t == << cc, name >>
  <2>1. t[1] = cc /\ t[2] = name  OBVIOUS
  <2>2. t \in ConditionRows  BY <1>3
  <2> HIDE DEF t
  <2> QED  BY <1>3, <2>1, <2>2, ConditionRight
<1>4. /\ << \h84, "JE" >> \in ConditionRows /\ << \h85, "JNE" >> \in ConditionRows
      /\ << \h8C, "JL" >> \in ConditionRows /\ << \h8D, "JGE" >> \in ConditionRows
      /\ << \h8E, "JLE" >> \in ConditionRows /\ << \h8F, "JG" >> \in ConditionRows
  BY DEF ConditionRows
<1>5. CASE line.mnemonic = "JE" /\ e = JE(line.operands)
  BY <1>3, <1>4, <1>5 DEF JE
<1>6. CASE line.mnemonic = "JNE" /\ e = JNE(line.operands)
  BY <1>3, <1>4, <1>6 DEF JNE
<1>7. CASE line.mnemonic = "JL" /\ e = JL(line.operands)
  BY <1>3, <1>4, <1>7 DEF JL
<1>8. CASE line.mnemonic = "JGE" /\ e = JGE(line.operands)
  BY <1>3, <1>4, <1>8 DEF JGE
<1>9. CASE line.mnemonic = "JLE" /\ e = JLE(line.operands)
  BY <1>3, <1>4, <1>9 DEF JLE
<1>10. CASE line.mnemonic = "JG" /\ e = JG(line.operands)
  BY <1>3, <1>4, <1>10 DEF JG
<1> QED  BY <1>1, <1>2, <1>5, <1>6, <1>7, <1>8, <1>9, <1>10

LEMMA EncodeRight ==
  ASSUME NEW line \in Line, line.mnemonic \in KnownMnemonics \ DataMnemonics,
         ~Misencoded(line),
         NEW e, e = Encode(line.mnemonic, line.operands), ~e.err
  PROVE  Right(line, e)
<1> DEFINE m == line.mnemonic
           ops == line.operands
<1>1. CASE m \in {"ADD", "SUB", "CMP"}
  <2>1. \/ m = "ADD" /\ e = ADD(ops)
        \/ m = "SUB" /\ e = SUB(ops)
        \/ m = "CMP" /\ e = CMP(ops)
    BY SMT, <1>1 DEF Encode
  <2> QED  BY <2>1, ArithmeticRight
<1>2. CASE m \in {"DEC", "MUL", "DIV"}
  <2>1. \/ m = "DEC" /\ e = DEC(ops)
        \/ m = "MUL" /\ e = MUL(ops)
        \/ m = "DIV" /\ e = DIV(ops)
    BY SMT, <1>2 DEF Encode
  <2> QED  BY <2>1, OneRegisterRight
<1>3. CASE m \in Jumps
  <2>1. \/ m = "CALL" /\ e = CALL(ops)
        \/ m = "JMP" /\ e = JMP(ops)
        \/ m = "JE" /\ e = JE(ops)
        \/ m = "JNE" /\ e = JNE(ops)
        \/ m = "JL" /\ e = JL(ops)
        \/ m = "JGE" /\ e = JGE(ops)
        \/ m = "JLE" /\ e = JLE(ops)
        \/ m = "JG" /\ e = JG(ops)
    BY SMT, <1>3 DEF Encode, Jumps
  <2> QED  BY <2>1, JumpRight
<1>4. CASE m \in {"NOP", "HLT", "SYSCALL"}
  <2>1. \/ m = "NOP" /\ e = Emit(<< \h90 >>)
        \/ m = "HLT" /\ e = HLT(ops)
        \/ m = "SYSCALL" /\ e = SYSCALL(ops)
    BY SMT, <1>4 DEF Encode
  <2> QED  BY <2>1, BareRight
<1>5. CASE m = "RET"
  <2>1. e = RET(ops)  BY SMT, <1>5 DEF Encode
  <2>2. Len(ops) = 0 \/ Len(ops) = 1  BY <2>1, Rejected DEF RET
  <2> QED  BY <1>5, <2>1, <2>2, BareRight, CountedRight
<1>6. CASE m = "INT"
  <2>1. e = INT(ops)  BY SMT, <1>6 DEF Encode
  <2>2. Len(ops) = 1  BY <2>1, Rejected DEF INT
  <2> QED  BY <1>6, <2>1, <2>2, CountedRight
<1>7. CASE m = "INC"
  <2>1. e = INC(ops)  BY SMT, <1>7 DEF Encode
  <2> QED  BY <1>7, <2>1, IncRight
<1>8. CASE m = "MOV"
  <2>1. e = MOV(ops)  BY SMT, <1>8 DEF Encode
  <2> QED  BY <1>8, <2>1, MovRight
<1>9. CASE m = "LEA"
  <2>1. e = LEA(ops)  BY SMT, <1>9 DEF Encode
  <2> QED  BY <1>9, <2>1, LeaRight
<1>10. \/ m \in {"ADD", "SUB", "CMP"} \/ m \in {"DEC", "MUL", "DIV"}
       \/ m \in Jumps \/ m \in {"NOP", "HLT", "SYSCALL"}
       \/ m = "RET" \/ m = "INT" \/ m = "INC" \/ m = "MOV" \/ m = "LEA"
  BY DEF KnownMnemonics, DataMnemonics, Jumps
<1> QED  BY <1>1, <1>2, <1>3, <1>4, <1>5, <1>6, <1>7, <1>8, <1>9, <1>10

-----------------------------------------------------------------------------
(* The bytes that a step appends are those of the emission.                *)
LEMMA MarkerOf ==
  ASSUME NEW w \in {4, 8}
  PROVE  /\ Marker(w) \in Bytes /\ Len(Marker(w)) = w
         /\ \A k \in 1 .. w : Marker(w)[k] = 16 + k
  BY SMT DEF Marker, Bytes, Byte

LEMMA BytesAre == \A t \in Bytes : t = [k \in 1 .. Len(t) |-> t[k]]
  BY SMT DEF Bytes

LEMMA Shifted ==
  ASSUME NEW n \in Nat, NEW h \in Nat, NEW w \in Nat, NEW k \in 1 .. h + w
  PROVE  /\ n + k \in n + h + 1 .. n + h + w <=> k > h
         /\ (n + k) - (n + h) = k - h
         /\ k > h => k - h \in 1 .. w /\ h + (k - h) = k
         /\ ~(k > h) => k \in 1 .. h
  BY SMT

LEMMA LengthBehind ==
  ASSUME NEW n \in Nat, NEW h \in Nat, NEW w \in Nat
  PROVE  (n + h + w) - n = h + w /\ (n + h + 0) - n = h
  BY SMT

LEMMA MiddleFacts ==
  \A s, t, u \in Bytes : \A w : w = s \o t \o u =>
    \A i \in 1 .. Len(t) : w[Len(s) + i] = t[i]
  BY SMT DEF Bytes

LEMMA AppendedHead ==
  ASSUME NEW seg \in Segment, NEW e, WellFormed(e)
  PROVE  \A i \in 1 .. Len(e.head) :
           Appended(seg, e).opcodes[Len(seg.opcodes) + i] = e.head[i]
<1>1. seg.opcodes \in Bytes  BY SMT DEF Segment, Bytes
<1>2. e.head \in Bytes /\ e.tail \in Bytes  BY EmissionParts
<1>3. Appended(seg, e).opcodes = seg.opcodes \o e.head \o e.tail
  BY DEF Appended
<1>4. \A w : w = seg.opcodes \o e.head \o e.tail =>
        \A i \in 1 .. Len(e.head) : w[Len(seg.opcodes) + i] = e.head[i]
  BY Zenon, <1>1, <1>2, MiddleFacts
<1> QED  BY Zenon, <1>3, <1>4

LEMMA NewEmission ==
  ASSUME NEW e, WellFormed(e), Here \in Segment, There = Appended(Here, e)
  PROVE  NewAddress = AddressOf(e) /\ NewBytes = Filled(e)
<1> DEFINE n == Len(Here.opcodes)
           h == Len(e.head)
           a == AddressOf(e)
           w == Len(a)
<1>1. /\ e.head \in Bytes /\ e.tail \in Bytes
      /\ n \in Nat /\ h \in Nat /\ Len(Here.replacements) \in Nat
  <2>1. e.head \in Bytes /\ e.tail \in Bytes  BY EmissionParts
  <2> QED  BY SMT, <2>1 DEF Segment, Bytes
<1>2. /\ Len(There.opcodes) = n + h + Len(e.tail)
      /\ \A i \in 1 .. h : There.opcodes[n + i] = e.head[i]
  BY AppendedOpcodes, AppendedHead
<1>3. CASE e.ref = NoRef
  <2>1. There.replacements = Here.replacements  BY <1>3 DEF Appended
  <2>2. ~Recorded  BY SMT, <1>1, <2>1 DEF Recorded
  <2>3. NewAddress = << >> /\ a = << >>  BY <1>3, <2>2 DEF NewAddress, AddressOf
  <2>4. Len(There.opcodes) - n = h
    <3>1. Len(e.tail) = 0
      <4>1. e.tail = << >>  BY <1>3 DEF WellFormed
      <4> QED  BY SMT, <4>1
    <3> HIDE DEF n, h
    <3> QED  BY <1>1, <1>2, <3>1, LengthBehind
  <2>5. NewBytes = [k \in 1 .. h |-> There.opcodes[n + k]]
    BY <2>2, <2>4 DEF NewBytes, NewByte
  <2>6. [k \in 1 .. h |-> There.opcodes[n + k]] = [k \in 1 .. h |-> e.head[k]]
    BY <1>2
  <2>7. Filled(e) = e.head  BY <1>1, <2>3, CatEmpty DEF Filled
  <2> QED  BY <1>1, <2>3, <2>5, <2>6, <2>7, BytesAre
<1>4. CASE e.ref # NoRef
  <2>1. /\ Len(There.replacements) = Len(Here.replacements) + 1
        /\ NewField = [name |-> e.ref.name, type |-> e.ref.type, address |-> n + h]
    BY <1>4, AppendedField DEF NewField
  <2>2. Recorded  BY SMT, <1>1, <2>1 DEF Recorded
  <2>3. NewAddress = a /\ a = Marker(PatchWidth(e.ref.type))
    BY <1>4, <2>1, <2>2 DEF NewAddress, AddressOf
  <2>4. a \in Bytes /\ w = Len(e.tail) /\ w \in Nat
    <3>1. PatchWidth(e.ref.type) \in {4, 8}  BY DEF PatchWidth
    <3>2. Len(e.tail) = PatchWidth(e.ref.type)  BY <1>4, EmissionParts
    <3>3. a \in Bytes /\ w = PatchWidth(e.ref.type)  BY <2>3, <3>1, MarkerOf
    <3> QED  BY SMT, <3>1, <3>2, <3>3
  <2>5. NewField.address = n + h  BY <2>1
  <2> HIDE DEF a, w
  <2>6. Len(There.opcodes) - n = h + w
    <3>1. Len(There.opcodes) = n + h + w  BY Zenon, <1>2, <2>4
    <3>2. (n + h + w) - n = h + w
      <4> HIDE DEF n, h
      <4> QED  BY <1>1, <2>4, LengthBehind
    <3> QED  BY Zenon, <3>1, <3>2
  <2> DEFINE f == [k \in 1 .. h + w |-> IF k > h THEN a[k - h] ELSE e.head[k]]
  <2>7. NewBytes = f
    <3>1. ASSUME NEW k \in 1 .. h + w
          PROVE  NewByte(n + k) = IF k > h THEN a[k - h] ELSE e.head[k]
      <4>1. /\ n + k \in n + h + 1 .. n + h + w <=> k > h
            /\ (n + k) - (n + h) = k - h
            /\ ~(k > h) => k \in 1 .. h
        <5> HIDE DEF n, h
        <5>1. n + k \in n + h + 1 .. n + h + w <=> k > h
          BY <1>1, <2>4, Shifted
        <5>2. (n + k) - (n + h) = k - h
          BY <1>1, <2>4, Shifted
        <5>3. ~(k > h) => k \in 1 .. h
          BY <1>1, <2>4, Shifted
        <5> QED  BY <5>1, <5>2, <5>3
      <4>2. Len(NewAddress) = w  BY <2>3 DEF w
      <4>3. ~(k > h) => There.opcodes[n + k] = e.head[k]  BY <1>2, <4>1
      <4> HIDE DEF n, h
      <4>4. /\ n + k \in NewField.address + 1 .. NewField.address + Len(NewAddress)
                <=> k > h
            /\ (n + k) - NewField.address = k - h
        BY Zenon, <2>5, <4>1, <4>2
      <4>5. CASE k > h
        <5>1. NewByte(n + k) = NewAddress[(n + k) - NewField.address]
          BY Zenon, <2>2, <4>4, <4>5 DEF NewByte
        <5>2. NewAddress[(n + k) - NewField.address] = a[k - h]
          BY Zenon, <2>3, <4>4
        <5> QED  BY Zenon, <4>5, <5>1, <5>2
      <4>6. CASE ~(k > h)
        BY Zenon, <4>3, <4>4, <4>6 DEF NewByte
      <4> QED  BY <4>5, <4>6
    <3>2. NewBytes = [k \in 1 .. Len(There.opcodes) - n |-> NewByte(n + k)]
      BY DEF NewBytes
    <3> HIDE DEF n, h
    <3> QED  BY Zenon, <2>6, <3>1, <3>2
  <2>8. Filled(e) = f
    <3> DEFINE t == e.head \o a
    <3>1. /\ t \in Bytes /\ Len(t) = h + w
          /\ \A k \in 1 .. h : t[k] = e.head[k]
          /\ \A k \in 1 .. w : t[h + k] = a[k]
      BY <1>1, <2>4, CatParts DEF w
    <3> HIDE DEF t
    <3>2. ASSUME NEW k \in 1 .. h + w
          PROVE  t[k] = IF k > h THEN a[k - h] ELSE e.head[k]
      <4>1. CASE k > h
        <5>1. k - h \in 1 .. w /\ h + (k - h) = k
          <6> HIDE DEF n, h
          <6> QED  BY <1>1, <2>4, <4>1, Shifted
        <5> QED  BY <3>1, <4>1, <5>1
      <4>2. CASE ~(k > h)
        <5>1. k \in 1 .. h
          <6> HIDE DEF n, h
          <6> QED  BY <1>1, <2>4, <4>2, Shifted
        <5> QED  BY <3>1, <4>2, <5>1
      <4> QED  BY <4>1, <4>2
    <3>3. t = [k \in 1 .. h + w |-> t[k]]  BY <3>1, BytesAre
    <3> QED  BY <3>2, <3>3 DEF t, Filled, a
  <2> HIDE DEF f
  <2> QED  BY <2>3, <2>7, <2>8 DEF a
<1> QED  BY <1>3, <1>4

(* The bytes that an accepted instruction line outside the classes of      *)
(* Misencoded appends are one x86-64 instruction, the one that the line    *)
(* asks for: for all operands that the parser can hand over, wherever the  *)
(* line is in the program and whatever the segment holds already.          *)
THEOREM EncodingEncodesMeaning == Spec => EncodesMeaning
<1> DEFINE A == Accepts /\ ~Misencoded(Current) => EncodesLine
<1>1. ASSUME IInv, [Next]_vars PROVE [A]_vars
  <2> SUFFICES ASSUME Accepts, ~Misencoded(Current)
               PROVE  EncodesLine
    OBVIOUS
  <2> DEFINE e == Encode(Current.mnemonic, Current.operands)
             c == current_segment_type
  <2>1. segments \in [SegmentTypes -> Segment] /\ c \in SegmentTypes
    BY <1>1 DEF IInv, TypeOK
  <2>2. /\ Instruction /\ Current.mnemonic \in KnownMnemonics \ DataMnemonics
        /\ Current \in Line /\ Current.operands \in Operands
    <3>1. Instruction /\ Current.mnemonic \notin DataMnemonics  BY DEF Accepts
    <3>2. Current.mnemonic \in KnownMnemonics /\ Lexing
      BY <3>1 DEF Instruction
    <3>3. Current \in Line  BY <1>1, <3>2, CurrentLine DEF IInv
    <3>4. Current.operands \in Operands  BY <3>3 DEF Line
    <3> QED  BY <3>1, <3>2, <3>3, <3>4
  <2>3. WellFormed(e)  BY <2>2, EncodeWellFormed
  <2>4. There = Appended(Here, e) /\ Here \in Segment
    <3>1. segments' = [segments EXCEPT ![c] = Appended(segments[c], e)]
          /\ current_segment_type' = c
      BY <2>2 DEF Instruction
    <3> QED  BY <2>1, <3>1 DEF There, Here
  <2>5. ~e.err
    <3>1. errors_found' = (errors_found \/ e.err)  BY <2>2 DEF Instruction
    <3>2. errors_found' = errors_found /\ ~errors_found  BY DEF Accepts
    <3>3. errors_found \in BOOLEAN  BY <1>1 DEF IInv, TypeOK
    <3> QED  BY <3>1, <3>2, <3>3
  <2> HIDE DEF e
  <2>6. Right(Current, e)
    <3>1. e = Encode(Current.mnemonic, Current.operands)  BY DEF e
    <3> QED  BY <2>2, <2>5, <3>1, EncodeRight
  <2>7. NewAddress = AddressOf(e) /\ NewBytes = Filled(e)
    BY <2>3, <2>4, NewEmission
  <2> QED  BY <2>6, <2>7 DEF Right, EncodesLine
<1> QED  BY <1>1, LexerInvariant, PTL DEF Spec, EncodesMeaning

-----------------------------------------------------------------------------
(* The linker measures a relative address from the four bytes behind the   *)
(* start of the field, the processor from the end of the instruction: the  *)
(* two are the same for every line, because a reference is recorded in     *)
(* front of a placeholder that is the last thing its mnemonic appends.     *)
THEOREM EncodingRelativeFieldEndsInstruction == Spec => RelativeFieldEndsInstruction
<1> DEFINE A == Instruction /\ Recorded /\ NewField.type = "RELATIVE"
                  => NewField.address + 4 = Len(There.opcodes)
<1>1. ASSUME IInv, [Next]_vars PROVE [A]_vars
  <2> SUFFICES ASSUME Instruction, Recorded, NewField.type = "RELATIVE"
               PROVE  NewField.address + 4 = Len(There.opcodes)
    OBVIOUS
  <2> DEFINE e == Encode(Current.mnemonic, Current.operands)
             c == current_segment_type
  <2>1. segments \in [SegmentTypes -> Segment] /\ c \in SegmentTypes
    BY <1>1 DEF IInv, TypeOK
  <2>2. WellFormed(e)
    <3>1. Current \in Line  BY <1>1, CurrentLine DEF IInv, Instruction
    <3>2. Current.operands \in Operands  BY SMT, <3>1 DEF Line
    <3>3. Current.mnemonic \in KnownMnemonics  BY DEF Instruction
    <3> QED  BY <3>2, <3>3, EncodeWellFormed
  <2>3. There = Appended(Here, e) /\ Here \in Segment
    <3>1. segments' = [segments EXCEPT ![c] = Appended(segments[c], e)]
      BY DEF Instruction
    <3> QED  BY <2>1, <3>1 DEF There, Here
  <2> HIDE DEF e
  <2>4. e.ref # NoRef
    <3>1. SUFFICES ASSUME e.ref = NoRef PROVE FALSE
      OBVIOUS
    <3>2. There.replacements = Here.replacements
      BY <2>3, <3>1 DEF Appended
    <3>3. Len(Here.replacements) \in Nat  BY SMT, <2>3 DEF Segment
    <3> QED  BY SMT, <3>2, <3>3 DEF Recorded
  <2>5. /\ Len(There.replacements) = Len(Here.replacements) + 1
        /\ There.replacements[Len(Here.replacements) + 1]
             = [name |-> e.ref.name, type |-> e.ref.type,
                address |-> Len(Here.opcodes) + Len(e.head)]
    BY <2>2, <2>3, <2>4, AppendedField
  <2>6. /\ NewField.type = e.ref.type
        /\ NewField.address = Len(Here.opcodes) + Len(e.head)
    BY <2>5 DEF NewField
  <2>7. Len(There.opcodes) = Len(Here.opcodes) + Len(e.head) + Len(e.tail)
    BY <2>2, <2>3, AppendedOpcodes
  <2>8. Len(e.tail) = 4
    BY <2>2, <2>4, <2>6, EmissionParts DEF PatchWidth
  <2> QED  BY <2>6, <2>7, <2>8
<1> QED  BY <1>1, LexerInvariant, PTL DEF Spec, RelativeFieldEndsInstruction

-----------------------------------------------------------------------------
(* Documented lines.                                                       *)
LEMMA EmissionTakes ==
  /\ \A b : Emit(b).err = FALSE
  /\ \A b, n, t, w : EmitRef(b, n, t, w).err = FALSE
  BY DEF Emit, EmitRef

LEMMA NumberBelow ==
  ASSUME NEW op \in Operand, NEW n \in Nat, Number(op, n)
  PROVE  ~Exceeds(op.value, n) /\ op.value \in Immediate
<1>1. op.value \in Immediate /\ Fits(op.value, n)
  BY ImmediateValue DEF Number, IsImm
<1> QED  BY SMT, <1>1 DEF Fits, Exceeds, Immediate, Byte

LEMMA OperandsOf ==
  ASSUME NEW line \in Line
  PROVE  /\ line.operands \in Operands /\ line.operands \in Seq(Operand)
         /\ \A k \in 1 .. Len(line.operands) : line.operands[k] \in Operand
  BY SMT DEF Line, Operands

LEMMA KindsApart ==
  \A op : /\ IsReg(op) => ~IsMem(op) /\ ~IsImm(op) /\ ~IsLabel(op)
          /\ IsMem(op) => ~IsImm(op) /\ ~IsLabel(op)
          /\ IsImm(op) => ~IsLabel(op)
  BY DEF IsReg, IsMem, IsImm, IsLabel

LEMMA RegisterSize ==
  ASSUME NEW op \in Operand, IsReg(op) \/ IsMem(op)
  PROVE  op.value \in Register /\ op.value.size \in {1, 2, 4, 8}
  BY RegisterValue, RegisterParts DEF IsReg, IsMem

LEMMA WideSize ==
  ASSUME NEW op \in Operand, IsReg(op) \/ IsMem(op), Wide(op)
  PROVE  ~(op.value.size <= 2)
  BY SMT, RegisterSize DEF Wide

LEMMA AluTakes ==
  ASSUME NEW line \in Line, DocumentedArithmetic(line),
         NEW rr8, NEW rr, NEW acc8, NEW acc, NEW ext, NEW otherwise
  PROVE  Alu(line.operands, rr8, rr, acc8, acc, ext, otherwise).err = FALSE
<1> DEFINE ops == line.operands
<1>1. Len(ops) = 2 /\ IsReg(ops[1])  BY DEF DocumentedArithmetic
<1>2. ops[1] \in Operand /\ ops[2] \in Operand  BY SMT, <1>1, OperandsOf
<1>3. CASE IsReg(ops[2]) /\ SameSizes(line)
  <2>1. Alu(ops, rr8, rr, acc8, acc, ext, otherwise)
          = AluRegReg(ops[1].value, ops[2].value, rr8, rr)
    BY <1>1, <1>3 DEF Alu, IsReg, IsImm
  <2>2. ops[1].value.size = ops[2].value.size  BY <1>3 DEF SameSizes
  <2> QED  BY <2>1, <2>2, EmissionTakes DEF AluRegReg
<1>4. CASE Number(ops[2], CapOf(ops[1].value.size))
  <2>1. IsImm(ops[2]) /\ ~IsReg(ops[2])  BY <1>4, KindsApart DEF Number
  <2>2. Alu(ops, rr8, rr, acc8, acc, ext, otherwise)
          = AluRegImm(ops[1].value, ops[2].value, acc8, acc, ext)
    BY <1>1, <2>1 DEF Alu
  <2>3. CapOf(ops[1].value.size) \in Nat
    BY SMT, <1>1, <1>2, RegisterSize DEF CapOf
  <2>4. ~Exceeds(ops[2].value, CapOf(ops[1].value.size))
    BY <1>2, <1>4, <2>3, NumberBelow
  <2> QED  BY <2>2, <2>4, EmissionTakes DEF AluRegImm
<1> QED  BY <1>3, <1>4 DEF DocumentedArithmetic

LEMMA NoneExtended ==
  ASSUME NEW ops \in Seq(Operand), ~HasExtended(ops)
  PROVE  \A k \in 1 .. Len(ops) : ~Extended(ops[k])
<1>1. DOMAIN ops = 1 .. Len(ops)  BY SMT
<1> QED  BY <1>1 DEF HasExtended

LEMMA MovMemImmTakes ==
  ASSUME NEW d, NEW v, ~Exceeds(v, 4), ~(d.size <= 2), d.size > 2
  PROVE  MovMemImm(d, v).err = FALSE
<1>1. CASE ~Exceeds(v, 1)
  BY <1>1, EmissionTakes DEF MovMemImm
<1>2. CASE Exceeds(v, 1) /\ ~Exceeds(v, 2)
  BY <1>2, EmissionTakes DEF MovMemImm
<1>3. CASE Exceeds(v, 1) /\ Exceeds(v, 2)
  BY <1>3, EmissionTakes DEF MovMemImm
<1> QED  BY <1>1, <1>2, <1>3

LEMMA MovTakes ==
  ASSUME NEW line \in Line, DocumentedMove(line)
  PROVE  MOV(line.operands).err = FALSE
<1> DEFINE ops == line.operands
<1>1. Len(ops) = 2 /\ ~HasExtended(ops)  BY DEF DocumentedMove
<1>2. ops \in Seq(Operand) /\ ops[1] \in Operand /\ ops[2] \in Operand
  BY SMT, <1>1, OperandsOf
<1>3. ~(\E k \in 1 .. Len(ops) : Extended(ops[k]))
  BY <1>1, <1>2, NoneExtended
<1>4. CASE IsReg(ops[1]) /\ IsReg(ops[2]) /\ SameSizes(line)
  <2>1. MOV(ops) = MovRegReg(ops[1].value, ops[2].value)
    BY <1>1, <1>3, <1>4, KindsApart DEF MOV
  <2>2. ops[1].value.size = ops[2].value.size  BY <1>4 DEF SameSizes
  <2> QED  BY <2>1, <2>2, EmissionTakes DEF MovRegReg
<1>5. CASE IsReg(ops[1]) /\ Number(ops[2], ops[1].value.size)
  <2>1. IsImm(ops[2])  BY <1>5 DEF Number
  <2>2. MOV(ops) = MovRegImm(ops[1].value, ops[2].value)
    BY <1>1, <1>3, <1>5, <2>1, KindsApart DEF MOV
  <2>3. ops[1].value.size \in Nat  BY SMT, <1>2, <1>5, RegisterSize
  <2>4. ~Exceeds(ops[2].value, ops[1].value.size)
    BY <1>2, <1>5, <2>3, NumberBelow
  <2> QED  BY <2>2, <2>4, EmissionTakes DEF MovRegImm
<1>6. CASE IsMem(ops[1]) /\ Wide(ops[1]) /\ Number(ops[2], 4)
  <2>1. IsImm(ops[2])  BY <1>6 DEF Number
  <2>2. MOV(ops) = MovMemImm(ops[1].value, ops[2].value)
    BY <1>1, <1>3, <1>6, <2>1, KindsApart DEF MOV
  <2>3. ~(ops[1].value.size <= 2) /\ ops[1].value.size > 2
    BY SMT, <1>2, <1>6, WideSize, RegisterSize
  <2>4. 4 \in Nat  BY SMT
  <2>5. ~Exceeds(ops[2].value, 4)  BY <1>2, <1>6, <2>4, NumberBelow
  <2>6. MovMemImm(ops[1].value, ops[2].value).err = FALSE
    BY <2>3, <2>5, MovMemImmTakes
  <2> QED  BY <2>2, <2>6
<1>7. CASE \/ IsMem(ops[1]) /\ Wide(ops[1]) /\ IsReg(ops[2])
           \/ IsReg(ops[1]) /\ Wide(ops[1]) /\ IsMem(ops[2])
  <2>1. MOV(ops) = MovRegMem(ops[1], ops[2])
    BY <1>1, <1>3, <1>7, KindsApart DEF MOV
  <2>2. ~(ops[1].value.size <= 2)  BY <1>2, <1>7, WideSize
  <2> QED  BY <2>1, <2>2, EmissionTakes DEF MovRegMem
<1>8. CASE /\ IsReg(ops[1]) /\ ops[1].value.size = 8
           /\ IsLabel(ops[2]) /\ ~ops[2].indirect
  <2>1. MOV(ops) = MovRegLabel(ops[1].value, ops[2].value)
    BY <1>1, <1>3, <1>8, KindsApart DEF MOV
  <2> QED  BY <1>8, <2>1, EmissionTakes DEF MovRegLabel
<1> QED  BY <1>4, <1>5, <1>6, <1>7, <1>8 DEF DocumentedMove

LEMMA UnaryTakes ==
  ASSUME NEW ops, Len(ops) = 1, IsReg(ops[1])
  PROVE  /\ INC(ops).err = FALSE /\ DEC(ops).err = FALSE
         /\ MUL(ops).err = FALSE /\ DIV(ops).err = FALSE
<1>1. \A op8, op, ext \in Nat : Unary(ops, op8, op, ext).err = FALSE
  BY EmissionTakes DEF Unary
<1>2. DEC(ops).err = FALSE  BY SMT, <1>1 DEF DEC
<1>3. MUL(ops).err = FALSE  BY SMT, <1>1 DEF MUL
<1>4. DIV(ops).err = FALSE  BY SMT, <1>1 DEF DIV
<1>5. INC(ops).err = FALSE
  <2>1. ~IsMem(ops[1])  BY DEF IsReg, IsMem
  <2>2. INC(ops) = Unary(ops, \hFE, \hFF, \hC0)  BY <2>1 DEF INC
  <2> QED  BY SMT, <1>1, <2>2
<1> QED  BY <1>2, <1>3, <1>4, <1>5

LEMMA IncTakes ==
  ASSUME NEW ops, Len(ops) = 1, IsMem(ops[1])
  PROVE  INC(ops).err = FALSE
  BY EmissionTakes DEF INC

LEMMA BranchTakes ==
  ASSUME NEW op \in Operand, IsLabel(op) \/ Number(op, 4), NEW opcode
  PROVE  Branch(op, opcode).err = FALSE
<1>1. CASE IsLabel(op)
  BY <1>1, KindsApart, EmissionTakes DEF Branch
<1>2. CASE Number(op, 4)
  <2>1. 4 \in Nat  BY SMT
  <2>2. IsImm(op) /\ ~Exceeds(op.value, 4)  BY <1>2, <2>1, NumberBelow DEF Number
  <2> QED  BY <2>2, EmissionTakes DEF Branch
<1> QED  BY <1>1, <1>2

LEMMA JumpTakes ==
  ASSUME NEW line \in Line, line.mnemonic \in Jumps, DocumentedBranch(line)
  PROVE  Encode(line.mnemonic, line.operands).err = FALSE
<1> DEFINE ops == line.operands
           m == line.mnemonic
<1>1. Len(ops) = 1  BY DEF DocumentedBranch
<1>2. ops[1] \in Operand  BY SMT, <1>1, OperandsOf
<1>3. CASE IsLabel(ops[1]) \/ Number(ops[1], 4)
  <2>1. ~IsReg(ops[1])  BY <1>3, KindsApart DEF Number
  <2>2. ASSUME NEW cc PROVE Jcc(ops, cc).err = FALSE
    BY <1>1, <1>2, <1>3, BranchTakes DEF Jcc
  <2>3. ASSUME NEW opcode, NEW ext PROVE FarBranch(ops, opcode, ext).err = FALSE
    BY <1>1, <1>2, <1>3, <2>1, BranchTakes DEF FarBranch
  <2>4. /\ CALL(ops).err = FALSE /\ JMP(ops).err = FALSE
        /\ JE(ops).err = FALSE /\ JNE(ops).err = FALSE
        /\ JL(ops).err = FALSE /\ JGE(ops).err = FALSE
        /\ JLE(ops).err = FALSE /\ JG(ops).err = FALSE
    BY Zenon, <2>2, <2>3 DEF CALL, JMP, JE, JNE, JL, JGE, JLE, JG
  <2> QED  BY <2>4 DEF Encode, Jumps
<1>4. CASE m \in {"CALL", "JMP"} /\ IsReg(ops[1]) /\ ops[1].value.size # 1
  <2>1. ASSUME NEW opcode, NEW ext PROVE FarBranch(ops, opcode, ext).err = FALSE
    BY <1>1, <1>4, EmissionTakes DEF FarBranch
  <2>2. CALL(ops).err = FALSE /\ JMP(ops).err = FALSE
    BY Zenon, <2>1 DEF CALL, JMP
  <2> QED  BY <1>4, <2>2 DEF Encode
<1> QED  BY <1>3, <1>4 DEF DocumentedBranch

LEMMA LeaTakes ==
  ASSUME NEW line \in Line, DocumentedAddress(line)
  PROVE  LEA(line.operands).err = FALSE
<1> DEFINE ops == line.operands
<1>1. /\ Len(ops) = 2 /\ ~HasExtended(ops) /\ IsReg(ops[1]) /\ Wide(ops[1])
      /\ \/ IsMem(ops[2]) /\ SameSizes(line)
         \/ IsLabel(ops[2]) /\ ops[2].indirect
  BY DEF DocumentedAddress
<1>2. ops \in Seq(Operand) /\ ops[1] \in Operand /\ ops[2] \in Operand
  BY SMT, <1>1, OperandsOf
<1>3. ~(ops[1].value.size <= 2)  BY <1>1, <1>2, WideSize
<1>4. ops[2].type = "REGISTER" => ~(ops[2].value.size <= 2)
  BY <1>1, <1>3 DEF IsMem, IsLabel, SameSizes
<1>5. ~(\E k \in 1 .. Len(ops) : \/ Extended(ops[k])
                                 \/ /\ ops[k].type = "REGISTER"
                                    /\ ops[k].value.size <= 2)
  <2>1. \A k \in 1 .. Len(ops) : k = 1 \/ k = 2  BY SMT, <1>1
  <2> QED  BY <1>1, <1>2, <1>3, <1>4, <2>1, NoneExtended
<1>6. CASE IsMem(ops[2]) /\ SameSizes(line)
  <2>1. ops[1].value.size = ops[2].value.size  BY <1>6 DEF SameSizes
  <2>2. ~IsLabel(ops[2])  BY <1>6 DEF IsMem, IsLabel
  <2> QED  BY <1>1, <1>5, <1>6, <2>1, <2>2, EmissionTakes DEF LEA
<1>7. CASE IsLabel(ops[2]) /\ ops[2].indirect
  BY <1>1, <1>5, <1>7, KindsApart, EmissionTakes DEF LEA
<1> QED  BY <1>1, <1>6, <1>7

LEMMA BareTakes ==
  ASSUME NEW ops, ops = << >>
  PROVE  HLT(ops).err = FALSE /\ SYSCALL(ops).err = FALSE /\ RET(ops).err = FALSE
<1>1. Len(ops) = 0 /\ Len(ops) # 1  BY SMT
<1> QED  BY <1>1, EmissionTakes DEF HLT, SYSCALL, Bare, RET

LEMMA CountedTakes ==
  ASSUME NEW ops, Len(ops) = 1, ops[1] \in Operand
  PROVE  /\ Number(ops[1], 1) => INT(ops).err = FALSE
         /\ Number(ops[1], 2) => RET(ops).err = FALSE
<1>1. 1 \in Nat /\ 2 \in Nat /\ Len(ops) # 0  BY SMT
<1>2. ASSUME Number(ops[1], 1) PROVE INT(ops).err = FALSE
  <2>1. IsImm(ops[1]) /\ ~Exceeds(ops[1].value, 1)
    BY <1>1, <1>2, NumberBelow DEF Number
  <2> QED  BY <2>1, EmissionTakes DEF INT
<1>3. ASSUME Number(ops[1], 2) PROVE RET(ops).err = FALSE
  <2>1. IsImm(ops[1]) /\ ~Exceeds(ops[1].value, 2)
    BY <1>1, <1>3, NumberBelow DEF Number
  <2> QED  BY <1>1, <2>1, EmissionTakes DEF RET
<1> QED  BY <1>2, <1>3

(* The width that DB finds always holds the value.                         *)
LEMMA ElementTakes ==
  ASSUME NEW op \in Operand
  PROVE  /\ IsImm(op) \/ op.type = "STRING" => Takes(0, op)
         /\ \A w \in {2, 4, 8} : Number(op, w) => Takes(w, op)
<1>1. ASSUME IsImm(op) PROVE ~Exceeds(op.value, DataWidth(0, op.value))
  <2>1. ~Exceeds(op.value, 8)  BY SMT DEF Exceeds
  <2> QED  BY <2>1 DEF DataWidth
<1>2. ASSUME NEW w \in {2, 4, 8}, Number(op, w) PROVE Takes(w, op)
  <2>1. w \in Nat /\ w # 0  BY SMT
  <2>2. ~Exceeds(op.value, w) /\ IsImm(op)  BY <1>2, <2>1, NumberBelow DEF Number
  <2>3. DataWidth(w, op.value) = w  BY <2>1 DEF DataWidth
  <2> QED  BY <2>2, <2>3 DEF Takes
<1> QED  BY <1>1, <1>2 DEF Takes

LEMMA DataTakes ==
  ASSUME NEW line \in Line, line.mnemonic \in DataMnemonics, DocumentedData(line)
  PROVE  Encode(line.mnemonic, line.operands).err = FALSE
<1> DEFINE ops == line.operands
           m == line.mnemonic
<1>1. ops \in Seq(Operand) /\ \A k \in 1 .. Len(ops) : ops[k] \in Operand
  BY OperandsOf
<1>2. Len(ops) > 0 /\ DOMAIN ops = 1 .. Len(ops)
  <2>1. ops # << >>  BY DEF DocumentedData
  <2> QED  BY SMT, <1>1, <2>1
<1>3. ASSUME NEW w, \A k \in 1 .. Len(ops) : Takes(w, ops[k])
      PROVE  Data(ops, w).err = FALSE
  BY <1>2, <1>3, EmissionTakes DEF Data
<1>4. CASE m = "DB"
  <2>1. \A k \in 1 .. Len(ops) : Takes(0, ops[k])
    BY <1>1, <1>2, <1>4, ElementTakes DEF DocumentedData
  <2>2. DB(ops).err = FALSE  BY <1>3, <2>1 DEF DB
  <2> QED  BY <1>4, <2>2 DEF Encode
<1>5. CASE m \in {"DW", "DDW", "DQW"}
  <2>1. ElementSize["DW"] = 2 /\ ElementSize["DDW"] = 4 /\ ElementSize["DQW"] = 8
    BY DEF ElementSize
  <2>2. \A k \in 1 .. Len(ops) : Number(ops[k], ElementSize[m])
    BY <1>2, <1>5 DEF DocumentedData
  <2>3. ASSUME m = "DW" PROVE DW(ops).err = FALSE
    BY <1>1, <1>3, <2>1, <2>2, <2>3, ElementTakes DEF DW
  <2>4. ASSUME m = "DDW" PROVE DDW(ops).err = FALSE
    BY <1>1, <1>3, <2>1, <2>2, <2>4, ElementTakes DEF DDW
  <2>5. ASSUME m = "DQW" PROVE DQW(ops).err = FALSE
    BY <1>1, <1>3, <2>1, <2>2, <2>5, ElementTakes DEF DQW
  <2> QED  BY <1>5, <2>3, <2>4, <2>5 DEF Encode
<1> QED  BY <1>4, <1>5 DEF DataMnemonics

LEMMA DocumentedTakes ==
  ASSUME NEW line \in Line, Documented(line)
  PROVE  Encode(line.mnemonic, line.operands).err = FALSE
<1> DEFINE m == line.mnemonic
           ops == line.operands
<1>1. CASE m \in Arithmetic /\ DocumentedArithmetic(line)
  <2>1. \A rr8, rr, acc8, acc, ext \in Nat : \A otherwise :
          Alu(ops, rr8, rr, acc8, acc, ext, otherwise).err = FALSE
    BY <1>1, AluTakes
  <2>2. ADD(ops).err = FALSE  BY SMT, <2>1 DEF ADD
  <2>3. SUB(ops).err = FALSE  BY SMT, <2>1 DEF SUB
  <2>4. CMP(ops).err = FALSE  BY SMT, <2>1 DEF CMP
  <2> QED  BY <1>1, <2>2, <2>3, <2>4 DEF Encode, Arithmetic
<1>2. CASE m = "MOV" /\ DocumentedMove(line)  BY <1>2, MovTakes DEF Encode
<1>3. CASE m = "LEA" /\ DocumentedAddress(line)  BY <1>3, LeaTakes DEF Encode
<1>4. CASE m \in Jumps /\ DocumentedBranch(line)  BY <1>4, JumpTakes
<1>5. CASE m \in DataMnemonics /\ DocumentedData(line)  BY <1>5, DataTakes
<1>6. CASE m \in {"INC", "DEC", "MUL", "DIV"} /\ Len(ops) = 1 /\ IsReg(ops[1])
  BY <1>6, UnaryTakes DEF Encode
<1>7. CASE m = "INC" /\ Len(ops) = 1 /\ IsMem(ops[1])
  BY <1>7, IncTakes DEF Encode
<1>8. CASE m \in {"NOP", "HLT", "SYSCALL", "RET"} /\ ops = << >>
  BY <1>8, BareTakes, EmissionTakes DEF Encode
<1>9. CASE /\ Len(ops) = 1
           /\ \/ m = "RET" /\ Number(ops[1], 2)
              \/ m = "INT" /\ Number(ops[1], 1)
  <2>1. ops[1] \in Operand  BY SMT, <1>9, OperandsOf
  <2> QED  BY <1>9, <2>1, CountedTakes DEF Encode
<1> QED
  BY <1>1, <1>2, <1>3, <1>4, <1>5, <1>6, <1>7, <1>8, <1>9 DEF Documented

(* No line of a documented shape is ever refused, whichever registers,     *)
(* numbers, labels and strings stand in it, how many of them a data line   *)
(* has, and wherever the line is in the program.                           *)
THEOREM EncodingAcceptsDocumented == Spec => AcceptsDocumented
<1> DEFINE A == Instruction /\ Documented(Current) => errors_found' = errors_found
<1>1. ASSUME IInv, [Next]_vars PROVE [A]_vars
  <2> SUFFICES ASSUME Instruction, Documented(Current)
               PROVE  errors_found' = errors_found
    OBVIOUS
  <2>1. Current \in Line  BY <1>1, CurrentLine DEF IInv, Instruction
  <2>2. Encode(Current.mnemonic, Current.operands).err = FALSE
    BY <2>1, DocumentedTakes
  <2>3. errors_found' = (errors_found
                           \/ Encode(Current.mnemonic, Current.operands).err)
    BY DEF Instruction
  <2>4. errors_found \in BOOLEAN  BY <1>1 DEF IInv, TypeOK
  <2> QED  BY <2>2, <2>3, <2>4
<1> QED  BY <1>1, LexerInvariant, PTL DEF Spec, AcceptsDocumented
=============================================================================
