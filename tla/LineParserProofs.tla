-------------------------- MODULE LineParserProofs --------------------------
(***************************************************************************)
(* What process_operand makes of every text: an operand of the type that   *)
(* the mnemonic functions are written for, or none.  The conversion of a   *)
(* number is a loop over its digits, and its type an induction over them.  *)
(*                                                                         *)
(* Then what it makes of the texts that mean something: a number in any    *)
(* notation is that number, the name of a register that register, an       *)
(* address that register with that displacement, and labels and strings    *)
(* are their characters; no branch takes what is meant for another.        *)
(*                                                                         *)
(* Then the type invariant of parse_source_lvl2, for any source that       *)
(* parse_source_lvl1 may deliver: whatever the texts of its parts are, the *)
(* lines that it passes on without an error are lines that lex_source is   *)
(* written for.                                                            *)
(***************************************************************************)
EXTENDS LineParser, WellFoundedInduction, SequenceTheorems, TLAPS

-----------------------------------------------------------------------------
(* Induction over the natural numbers, for a set instead of a predicate.   *)
LEMMA Smallest ==
  ASSUME NEW T, T \subseteq Nat, T # {}
  PROVE  \E x \in T : \A y \in T : x <= y
<1>1. IsWellFoundedOn(OpToRel(<, Nat), Nat)  BY NatLessThanWellFounded, Zenon
<1>2. \E x \in T : \A y \in T : ~(<< y, x >> \in OpToRel(<, Nat))
  BY <1>1, WFMin, Zenon
<1>3. \A x, y \in Nat : ~(<< y, x >> \in OpToRel(<, Nat)) => x <= y
  BY SMT DEF OpToRel
<1> QED  BY <1>2, <1>3

LEMMA Induction ==
  ASSUME NEW T, 0 \in T, \A n \in Nat : n \in T => n + 1 \in T
  PROVE  Nat \subseteq T
<1>1. SUFFICES ASSUME ~(Nat \subseteq T) PROVE FALSE  OBVIOUS
<1> DEFINE U == Nat \ T
<1>2. PICK x \in U : \A y \in U : x <= y  BY <1>1, Smallest
<1>3. x # 0 /\ x \in Nat  OBVIOUS
<1>4. x - 1 \in Nat /\ (x - 1) + 1 = x /\ ~(x <= x - 1)  BY SMT, <1>3
<1>5. x - 1 \in T  BY <1>2, <1>4
<1> QED  BY <1>2, <1>4, <1>5

(* A function that is defined by recursion over an interval exists, and    *)
(* its values are where its steps lead.                                    *)
Follows(f, N, S, base, step) ==
  /\ f \in [0 .. N -> S]
  /\ f[0] = base
  /\ \A n \in 1 .. N : f[n] = step[<< n, f[n - 1] >>]

LEMMA Recursion ==
  ASSUME NEW S, NEW N \in Nat, NEW base \in S, NEW step \in [(1 .. N) \X S -> S]
  PROVE  \E f : Follows(f, N, S, base, step)
<1> DEFINE Good(m, f) ==
      \A n \in 0 .. m : f[n] = IF n = 0 THEN base ELSE step[<< n, f[n - 1] >>]
    T == {m \in Nat : m <= N => \E f \in [0 .. m -> S] : Good(m, f)}
<1>1. 0 \in T
  <2>1. [n \in 0 .. 0 |-> base] \in [0 .. 0 -> S] /\ Good(0, [n \in 0 .. 0 |-> base])
    BY SMT
  <2> QED  BY <2>1
<1>2. ASSUME NEW m \in Nat, m \in T PROVE m + 1 \in T
  <2>1. SUFFICES ASSUME m + 1 <= N
                 PROVE  \E f \in [0 .. m + 1 -> S] : Good(m + 1, f)
    BY SMT
  <2>2. m <= N /\ m + 1 \in 1 .. N  BY <2>1, SMT
  <2>3. PICK f \in [0 .. m -> S] : Good(m, f)  BY <1>2, <2>2
  <2>4. f[m] \in S /\ << m + 1, f[m] >> \in (1 .. N) \X S  BY <2>2, SMT
  <2>5. step[<< m + 1, f[m] >>] \in S  BY <2>4
  <2> DEFINE g == [n \in 0 .. m + 1 |-> IF n = m + 1 THEN step[<< m + 1, f[m] >>]
                                        ELSE f[n]]
  <2>6. g \in [0 .. m + 1 -> S]
    <3> HIDE <2>3
    <3>1. \A n \in 0 .. m + 1 : n # m + 1 => n \in 0 .. m  BY SMT
    <3> QED  BY <3>1, <2>5
  <2>7. Good(m + 1, g)
    <3>1. SUFFICES ASSUME NEW n \in 0 .. m + 1
                   PROVE  g[n] = IF n = 0 THEN base ELSE step[<< n, g[n - 1] >>]
      OBVIOUS
    <3>2. CASE n = m + 1
      <4>1. n # 0 /\ n - 1 = m /\ m # m + 1 /\ m \in 0 .. m + 1  BY <3>2, SMT
      <4> QED  BY <3>2, <4>1
    <3>3. CASE n # m + 1
      <4>1. n \in 0 .. m /\ (n # 0 => n - 1 \in 0 .. m + 1 /\ n - 1 # m + 1)
        BY <3>3, SMT
      <4> QED  BY <2>3, <3>3, <4>1
    <3> QED  BY <3>2, <3>3
  <2> QED  BY <2>6, <2>7
<1>3. N \in T
  <2> HIDE DEF T
  <2> QED  BY <1>1, <1>2, Induction
<1>4. PICK f \in [0 .. N -> S] : Good(N, f)  BY <1>3, SMT
<1>5. 0 \in 0 .. N /\ \A n \in 1 .. N : n \in 0 .. N /\ n # 0  BY SMT
<1> QED  BY <1>4, <1>5 DEF Follows

-----------------------------------------------------------------------------
(* The characters: every text has codes that are bytes, before and after   *)
(* str_to_upper.                                                           *)
LEMMA Place ==
  ASSUME NEW chars, NEW c \in Range(chars)
  PROVE  /\ PlaceIn(chars)[c] \in DOMAIN chars
         /\ chars[PlaceIn(chars)[c]] = c
<1>1. \E k \in DOMAIN chars : chars[k] = c  BY DEF Range
<1> QED  BY <1>1 DEF PlaceIn

LEMMA Domains ==
  /\ DOMAIN DigitChars = 1 .. 10
  /\ DOMAIN LowerChars = 1 .. 26
  /\ DOMAIN UpperChars = 1 .. 26
  /\ DOMAIN PunctuationChars = 1 .. 14
  /\ PunctuationCodes \in [1 .. 14 -> Byte]
  BY DEF DigitChars, LowerChars, UpperChars, PunctuationChars, PunctuationCodes, Byte

LEMMA CodeIsByte == \A c \in DOMAIN Codes : Code(c) \in Byte
<1>1. SUFFICES ASSUME NEW c \in DOMAIN Codes PROVE Codes[c] \in Byte  BY DEF Code
<1>2. \/ c \in Range(DigitChars) \/ c \in Range(UpperChars)
      \/ c \in Range(LowerChars) \/ c \in Range(PunctuationChars)
  BY DEF Codes
<1>3. c \in Range(DigitChars) => PlaceIn(DigitChars)[c] \in 1 .. 10
  BY Place, Domains
<1>4. c \in Range(UpperChars) => PlaceIn(UpperChars)[c] \in 1 .. 26
  BY Place, Domains
<1>5. c \in Range(LowerChars) => PlaceIn(LowerChars)[c] \in 1 .. 26
  BY Place, Domains
<1>6. c \in Range(PunctuationChars) => PlaceIn(PunctuationChars)[c] \in 1 .. 14
  BY Place, Domains
<1>7. Codes[c] =
        CASE c \in Range(DigitChars) -> PlaceIn(DigitChars)[c] + 47
          [] c \in Range(UpperChars) -> PlaceIn(UpperChars)[c] + 64
          [] c \in Range(LowerChars) -> PlaceIn(LowerChars)[c] + 96
          [] c \in Range(PunctuationChars) ->
               PunctuationCodes[PlaceIn(PunctuationChars)[c]]
  BY DEF Codes
<1>8. PunctuationCodes \in [1 .. 14 -> Byte]  BY Domains
<1>9. \A k \in 1 .. 26 : k + 64 \in Byte /\ k + 96 \in Byte  BY SMT DEF Byte
<1>10. \A k \in 1 .. 10 : k + 47 \in Byte  BY SMT DEF Byte
<1> QED  BY <1>2, <1>3, <1>4, <1>5, <1>6, <1>7, <1>8, <1>9, <1>10

LEMMA UpperIsText == \A str \in Text : Upper(str) \in Text
<1>1. SUFFICES ASSUME NEW str \in Text PROVE Upper(str) \in Text  OBVIOUS
<1> DEFINE C == DOMAIN Codes
<1>2. \A c \in DOMAIN ToUpper : ToUpper[c] \in Range(UpperChars)
  BY Place, Domains DEF ToUpper, Range
<1>3. Range(UpperChars) \subseteq C  BY DEF Codes
<1>4. str \in Seq(C)  BY <1>1 DEF Text
<1>5. str \in [1 .. Len(str) -> C] /\ Len(str) \in Nat
  <2> HIDE DEF C
  <2> QED  BY <1>4, LenProperties
<1>6. Upper(str) \in [1 .. Len(str) -> C]
  <2> HIDE DEF C
  <2> QED  BY <1>2, <1>3, <1>5 DEF Upper
<1>7. Upper(str) \in Seq(C)
  <2> HIDE DEF C
  <2> QED  BY <1>5, <1>6, SeqDef
<1> QED  BY <1>7 DEF Text

(* A piece of a text is a text.                                            *)
LEMMA PieceIsText ==
  ASSUME NEW str \in Text, NEW m \in Nat \ {0}, NEW n \in Int, n <= Len(str)
  PROVE  SubSeq(str, m, n) \in Text
<1> DEFINE C == DOMAIN Codes
<1>1. str \in Seq(C)  BY DEF Text
<1> HIDE DEF C
<1>2. Len(str) \in Nat  BY <1>1
<1>3. \A i \in m .. n : i \in 1 .. Len(str)  BY <1>2, SMT
<1>4. \A i \in m .. n : str[i] \in C  BY <1>1, <1>3, ElementOfSeq
<1>5. SubSeq(str, m, n) \in Seq(C)  BY <1>4, SubSeqProperties
<1> QED  BY <1>5 DEF Text, C

LEMMA BehindIsText ==
  ASSUME NEW str \in Text, NEW n \in Nat
  PROVE  Behind(str, n) \in Text
<1>1. Len(str) \in Nat /\ n + 1 \in Nat \ {0}  BY SMT DEF Text
<1>2. Len(str) \in Int /\ Len(str) <= Len(str)  BY <1>1, SMT
<1> QED  BY <1>1, <1>2, PieceIsText DEF Behind
-----------------------------------------------------------------------------
(* The numbers.  A carry of MulAdd is what the bytes below do not hold.    *)
Carries(carry, v, base, digit) ==
  /\ carry \in [0 .. 8 -> Int]
  /\ carry[0] = digit
  /\ \A k \in 1 .. 8 : carry[k] = (v[k] * base + carry[k - 1]) \div 256

LEMMA CarriesExist ==
  ASSUME NEW v \in Immediate, NEW base \in Nat, NEW digit \in Int
  PROVE  \E carry : Carries(carry, v, base, digit)
<1> DEFINE step == [p \in (1 .. 8) \X Int |-> (v[p[1]] * base + p[2]) \div 256]
<1>1. \A b \in Nat, c \in Int : (b * base + c) \div 256 \in Int  BY SMT
<1>2. \A k \in 1 .. 8 : v[k] \in Nat  BY SMT DEF Immediate, Byte
<1>3. step \in [(1 .. 8) \X Int -> Int]
  <2>1. \A p \in (1 .. 8) \X Int : p[1] \in 1 .. 8 /\ p[2] \in Int  OBVIOUS
  <2>2. \A p \in (1 .. 8) \X Int : (v[p[1]] * base + p[2]) \div 256 \in Int
    BY <1>1, <1>2, <2>1, Zenon
  <2> QED  BY <2>2, Zenon
<1>4. \E carry : Follows(carry, 8, Int, digit, step)
  <2>1. 8 \in Nat  OBVIOUS
  <2> HIDE DEF step
  <2> QED  BY <1>3, <2>1, Recursion
<1>5. PICK carry : Follows(carry, 8, Int, digit, step)  BY <1>4
<1>6. \A k \in 1 .. 8 : step[<< k, carry[k - 1] >>] = (v[k] * base + carry[k - 1]) \div 256
  <2>1. \A k \in 1 .. 8 : k - 1 \in 0 .. 8  BY SMT
  <2>2. \A k \in 1 .. 8 : << k, carry[k - 1] >> \in (1 .. 8) \X Int
    BY <2>1, <1>5 DEF Follows
  <2> QED  BY <2>2
<1>7. Carries(carry, v, base, digit)
  <2> HIDE DEF step
  <2> QED  BY <1>5, <1>6 DEF Follows, Carries
<1> QED  BY <1>7

LEMMA CarriesOfMulAdd ==
  ASSUME NEW v \in Immediate, NEW base \in Nat, NEW digit \in Int
  PROVE  \E carry :
           /\ Carries(carry, v, base, digit)
           /\ MulAdd(v, base, digit) =
                << (v[1] * base + carry[0]) % 256, (v[2] * base + carry[1]) % 256,
                   (v[3] * base + carry[2]) % 256, (v[4] * base + carry[3]) % 256,
                   (v[5] * base + carry[4]) % 256, (v[6] * base + carry[5]) % 256,
                   (v[7] * base + carry[6]) % 256, (v[8] * base + carry[7]) % 256 >>
<1> DEFINE Fits(c) ==
      c = [k \in 0 .. 8 |-> IF k = 0 THEN digit ELSE (v[k] * base + c[k - 1]) \div 256]
    carry == CHOOSE c : Fits(c)
<1>1. PICK c : Carries(c, v, base, digit)  BY CarriesExist
<1>2. Fits(c)
  <2> DEFINE d == [k \in 0 .. 8 |-> IF k = 0 THEN digit ELSE (v[k] * base + c[k - 1]) \div 256]
  <2>1. \A k \in 0 .. 8 : k = 0 \/ k \in 1 .. 8  BY SMT
  <2>2. \A k \in 0 .. 8 : c[k] = d[k]  BY <1>1, <2>1, Zenon DEF Carries
  <2>3. DOMAIN c = 0 .. 8 /\ c = [k \in 0 .. 8 |-> c[k]]  BY <1>1 DEF Carries
  <2> QED  BY <2>2, <2>3, Zenon
<1>3. Fits(carry)
  <2> HIDE DEF Fits
  <2> QED  BY <1>2
<1> HIDE DEF carry
<1>4. carry[0] = digit
  <2>1. 0 \in 0 .. 8  BY SMT
  <2> QED  BY <1>3, <2>1, Zenon
<1>5. \A k \in 1 .. 8 : carry[k] = (v[k] * base + carry[k - 1]) \div 256
  <2>1. \A k \in 1 .. 8 : k \in 0 .. 8 /\ k # 0  BY SMT
  <2> QED  BY <1>3, <2>1, Zenon
<1>6. carry \in [0 .. 8 -> Int]
  <2> DEFINE T == {k \in Nat : k <= 8 => carry[k] \in Int}
  <2>1. 0 \in T  BY <1>4, SMT
  <2>2. ASSUME NEW k \in Nat, k \in T PROVE k + 1 \in T
    <3>1. SUFFICES ASSUME k + 1 <= 8 PROVE carry[k + 1] \in Int  BY SMT
    <3>2. k + 1 \in 1 .. 8 /\ (k + 1) - 1 = k /\ k <= 8  BY <3>1, SMT
    <3>3. carry[k] \in Int  BY <2>2, <3>2
    <3>4. carry[k + 1] = (v[k + 1] * base + carry[k]) \div 256  BY <1>5, <3>2, Zenon
    <3>5. v[k + 1] \in Nat  BY <3>2, SMT DEF Immediate, Byte
    <3>6. \A a \in Nat, b \in Int : (a * base + b) \div 256 \in Int  BY SMT
    <3> QED  BY <3>3, <3>4, <3>5, <3>6, Zenon
  <2>3. Nat \subseteq T
    <3> HIDE DEF T
    <3> QED  BY <2>1, <2>2, Induction
  <2>4. \A k \in 0 .. 8 : k \in Nat /\ k <= 8  BY SMT
  <2>5. \A k \in 0 .. 8 : carry[k] \in Int  BY <2>3, <2>4
  <2>6. carry = [k \in 0 .. 8 |-> carry[k]]  BY <1>3, Zenon
  <2> QED  BY <2>5, <2>6, Zenon
<1>7. MulAdd(v, base, digit) =
        << (v[1] * base + carry[1 - 1]) % 256, (v[2] * base + carry[2 - 1]) % 256,
           (v[3] * base + carry[3 - 1]) % 256, (v[4] * base + carry[4 - 1]) % 256,
           (v[5] * base + carry[5 - 1]) % 256, (v[6] * base + carry[6 - 1]) % 256,
           (v[7] * base + carry[7 - 1]) % 256, (v[8] * base + carry[8 - 1]) % 256 >>
  BY Zenon DEF MulAdd, carry
<1>8. /\ 1 - 1 = 0 /\ 2 - 1 = 1 /\ 3 - 1 = 2 /\ 4 - 1 = 3
      /\ 5 - 1 = 4 /\ 6 - 1 = 5 /\ 7 - 1 = 6 /\ 8 - 1 = 7
  BY SMT
<1>9. Carries(carry, v, base, digit)  BY <1>4, <1>5, <1>6 DEF Carries
<1> QED  BY <1>7, <1>8, <1>9, Zenon
LEMMA MulAddIsImmediate ==
  ASSUME NEW v \in Immediate, NEW base \in Nat, NEW digit \in Int
  PROVE  MulAdd(v, base, digit) \in Immediate
<1>1. PICK carry :
        /\ Carries(carry, v, base, digit)
        /\ MulAdd(v, base, digit) =
             << (v[1] * base + carry[0]) % 256, (v[2] * base + carry[1]) % 256,
                (v[3] * base + carry[2]) % 256, (v[4] * base + carry[3]) % 256,
                (v[5] * base + carry[4]) % 256, (v[6] * base + carry[5]) % 256,
                (v[7] * base + carry[6]) % 256, (v[8] * base + carry[7]) % 256 >>
  BY CarriesOfMulAdd
<1>2. \A b \in Nat, c \in Int : (b * base + c) % 256 \in Byte  BY SMT DEF Byte
<1>3. \A k \in 1 .. 8 : v[k] \in Nat  BY SMT DEF Immediate, Byte
<1>4. \A k \in 0 .. 8 : carry[k] \in Int  BY <1>1 DEF Carries
<1>5. \A i \in 1 .. 8, k \in 0 .. 8 : (v[i] * base + carry[k]) % 256 \in Byte
  BY <1>2, <1>3, <1>4, Zenon
<1> DEFINE byte(k) == (v[k] * base + carry[k - 1]) % 256
<1>6. ASSUME byte(1) \in Byte, byte(2) \in Byte, byte(3) \in Byte, byte(4) \in Byte,
             byte(5) \in Byte, byte(6) \in Byte, byte(7) \in Byte, byte(8) \in Byte
      PROVE  << byte(1), byte(2), byte(3), byte(4), byte(5), byte(6), byte(7), byte(8) >>
               \in Immediate
  <2> HIDE DEF byte
  <2> QED  BY <1>6 DEF Immediate
<1>7. \A k \in 1 .. 8 : byte(k) \in Byte
  <2>1. \A k \in 1 .. 8 : k - 1 \in 0 .. 8  BY SMT
  <2> QED  BY <1>5, <2>1, Zenon
<1>8. MulAdd(v, base, digit) =
        << byte(1), byte(2), byte(3), byte(4), byte(5), byte(6), byte(7), byte(8) >>
  <2>1. /\ 1 - 1 = 0 /\ 2 - 1 = 1 /\ 3 - 1 = 2 /\ 4 - 1 = 3
        /\ 5 - 1 = 4 /\ 6 - 1 = 5 /\ 7 - 1 = 6 /\ 8 - 1 = 7
    BY SMT
  <2> QED  BY <1>1, <2>1, Zenon
<1> HIDE DEF byte
<1>9. /\ byte(1) \in Byte /\ byte(2) \in Byte /\ byte(3) \in Byte /\ byte(4) \in Byte
      /\ byte(5) \in Byte /\ byte(6) \in Byte /\ byte(7) \in Byte /\ byte(8) \in Byte
  BY <1>7, SMT
<1> QED  BY <1>6, <1>8, <1>9

LEMMA DigitIsInt == \A c \in DOMAIN Codes : DigitOf(c) \in Int
<1>1. \A n \in Byte : n - 65 + 10 \in Int /\ n - 48 \in Int  BY SMT DEF Byte
<1> QED  BY <1>1, CodeIsByte, Zenon DEF DigitOf

(* The loop over the digits, and its result.                               *)
NumberAfter(result, str, base) ==
  /\ result \in [0 .. Len(str) -> Immediate]
  /\ result[0] = Zeros(8)
  /\ \A n \in 1 .. Len(str) :
       result[n] = MulAdd(result[n - 1], base, DigitOf(str[n]))

LEMMA NumberExists ==
  ASSUME NEW str \in Text, NEW base \in Nat
  PROVE  \E result : NumberAfter(result, str, base)
<1> DEFINE step == [p \in (1 .. Len(str)) \X Immediate |-> MulAdd(p[2], base, DigitOf(str[p[1]]))]
<1>1. Len(str) \in Nat  BY DEF Text
<1>2. \A n \in 1 .. Len(str) : DigitOf(str[n]) \in Int
  <2>1. \A n \in 1 .. Len(str) : str[n] \in DOMAIN Codes  BY ElementOfSeq DEF Text
  <2> QED  BY <2>1, DigitIsInt, Zenon
<1>3. step \in [(1 .. Len(str)) \X Immediate -> Immediate]
  <2>1. \A p \in (1 .. Len(str)) \X Immediate : p[1] \in 1 .. Len(str) /\ p[2] \in Immediate
    OBVIOUS
  <2>2. \A p \in (1 .. Len(str)) \X Immediate :
          MulAdd(p[2], base, DigitOf(str[p[1]])) \in Immediate
    BY <1>2, <2>1, MulAddIsImmediate, Zenon
  <2> QED  BY <2>2, Zenon
<1>4. Zeros(8) \in Immediate  BY DEF Zeros, Immediate, Byte
<1>5. \E result : Follows(result, Len(str), Immediate, Zeros(8), step)
  <2> HIDE DEF step
  <2> QED  BY <1>1, <1>3, <1>4, Recursion
<1>6. PICK result : Follows(result, Len(str), Immediate, Zeros(8), step)  BY <1>5
<1>7. \A n \in 1 .. Len(str) :
        step[<< n, result[n - 1] >>] = MulAdd(result[n - 1], base, DigitOf(str[n]))
  <2>1. \A n \in 1 .. Len(str) : n - 1 \in 0 .. Len(str)  BY <1>1, SMT
  <2>2. \A n \in 1 .. Len(str) : << n, result[n - 1] >> \in (1 .. Len(str)) \X Immediate
    BY <2>1, <1>6 DEF Follows
  <2> QED  BY <2>2
<1>8. NumberAfter(result, str, base)
  <2> HIDE DEF step
  <2> QED  BY <1>6, <1>7 DEF Follows, NumberAfter
<1> QED  BY <1>8

LEMMA NumberOfText ==
  ASSUME NEW str \in Text, NEW base \in Nat
  PROVE  \E result : /\ NumberAfter(result, str, base)
                     /\ ToNumber(str, base) = result[Len(str)]
<1> DEFINE Fits(r) ==
      r = [n \in 0 .. Len(str) |->
             IF n = 0 THEN Zeros(8) ELSE MulAdd(r[n - 1], base, DigitOf(str[n]))]
    result == CHOOSE r : Fits(r)
<1>1. PICK r : NumberAfter(r, str, base)  BY NumberExists
<1>2. Len(str) \in Nat  BY DEF Text
<1>3. Fits(r)
  <2> DEFINE d == [n \in 0 .. Len(str) |->
                     IF n = 0 THEN Zeros(8) ELSE MulAdd(r[n - 1], base, DigitOf(str[n]))]
  <2>1. \A n \in 0 .. Len(str) : n = 0 \/ n \in 1 .. Len(str)  BY <1>2, SMT
  <2>2. \A n \in 0 .. Len(str) : r[n] = d[n]
    BY <1>1, <2>1, Zenon DEF NumberAfter
  <2>3. r = [n \in 0 .. Len(str) |-> r[n]]  BY <1>1 DEF NumberAfter
  <2> QED  BY <2>2, <2>3, Zenon
<1>4. Fits(result)
  <2> HIDE DEF Fits
  <2> QED  BY <1>3
<1>5. ToNumber(str, base) = result[Len(str)]  BY Zenon DEF ToNumber
<1> HIDE DEF result
<1>6. result[0] = Zeros(8)
  <2>1. 0 \in 0 .. Len(str)  BY <1>2, SMT
  <2> QED  BY <1>4, <2>1, Zenon
<1>7. \A n \in 1 .. Len(str) : result[n] = MulAdd(result[n - 1], base, DigitOf(str[n]))
  <2>1. \A n \in 1 .. Len(str) : n \in 0 .. Len(str) /\ n # 0  BY <1>2, SMT
  <2> QED  BY <1>4, <2>1, Zenon
<1>8. \A n \in Nat : n <= Len(str) => result[n] = r[n]
  <2> DEFINE T == {n \in Nat : n <= Len(str) => result[n] = r[n]}
  <2>1. 0 \in T  BY <1>1, <1>6 DEF NumberAfter
  <2>2. ASSUME NEW n \in Nat, n \in T PROVE n + 1 \in T
    <3>1. SUFFICES ASSUME n + 1 <= Len(str) PROVE result[n + 1] = r[n + 1]  BY SMT
    <3>2. n + 1 \in 1 .. Len(str) /\ (n + 1) - 1 = n /\ n <= Len(str)
      BY <1>2, <3>1, SMT
    <3> QED  BY <1>1, <1>7, <2>2, <3>2, Zenon DEF NumberAfter
  <2>3. Nat \subseteq T
    <3> HIDE DEF T
    <3> QED  BY <2>1, <2>2, Induction
  <2> QED  BY <2>3
<1>9. result[Len(str)] = r[Len(str)]
  <2>1. Len(str) <= Len(str)  BY <1>2, SMT
  <2> QED  BY <1>2, <1>8, <2>1, Zenon
<1> QED  BY <1>1, <1>5, <1>9, Zenon

LEMMA ToNumberIsImmediate ==
  ASSUME NEW str \in Text, NEW base \in Nat
  PROVE  ToNumber(str, base) \in Immediate
<1>1. PICK result : /\ NumberAfter(result, str, base)
                    /\ ToNumber(str, base) = result[Len(str)]
  BY NumberOfText
<1>2. Len(str) \in 0 .. Len(str)
  <2>1. Len(str) \in Nat  BY DEF Text
  <2> QED  BY <2>1, SMT
<1> QED  BY <1>1, <1>2, Zenon DEF NumberAfter
NumberResult == [found : BOOLEAN, error : BOOLEAN, value : Immediate]

LEMMA NumberIsTyped ==
  ASSUME NEW str \in Text, NEW can_be_register \in BOOLEAN
  PROVE  process_number(str, can_be_register) \in NumberResult
<1>1. Zeros(8) \in Immediate  BY DEF Zeros, Immediate, Byte
<1>2. \A error \in BOOLEAN : NoNumber(error) \in NumberResult
  BY <1>1 DEF NoNumber, NumberResult
<1>3. ASSUME NEW digits \in Text, NEW allowed, NEW longest, NEW base \in Nat
      PROVE  Numeral(digits, allowed, longest, base) \in NumberResult
  <2>1. ToNumber(digits, base) \in Immediate  BY ToNumberIsImmediate
  <2>2. Number(ToNumber(digits, base)) \in NumberResult  BY <2>1 DEF Number, NumberResult
  <2> QED  BY <1>2, <2>2 DEF Numeral
<1>4. Upper(Behind(str, 2)) \in Text  BY BehindIsText, UpperIsText
<1>5. /\ Numeral(Upper(Behind(str, 2)), HexDigits, 16, 16) \in NumberResult
      /\ Numeral(Upper(Behind(str, 2)), BinaryDigits, 64, 2) \in NumberResult
      /\ Numeral(str, DOMAIN Codes, 20, 10) \in NumberResult
  <2>1. 16 \in Nat /\ 2 \in Nat /\ 10 \in Nat  OBVIOUS
  <2> QED  BY <1>3, <1>4, <2>1
<1>6. NoNumber(~can_be_register) \in NumberResult  BY <1>2
<1> QED  BY <1>5, <1>6, Zenon DEF process_number

-----------------------------------------------------------------------------
(* The registers, the strings and the addresses.                           *)
LEMMA RegisterIsTyped ==
  ASSUME NEW name, IsRegister(name)
  PROVE  get_register(name) \in Register
<1> DEFINE r == CHOOSE r \in Registers : r.name = name
<1>1. r \in Registers  BY DEF IsRegister
<1>2. \A k \in 1 .. 8 : k - 1 \in 0 .. 15 /\ k + 7 \in 0 .. 15  BY SMT
<1>3. \A s \in SizeSuffixes : s[2] \in {1, 2, 4, 8}  BY DEF SizeSuffixes
<1>4. \A q \in Registers : q.code \in 0 .. 15 /\ q.size \in {1, 2, 4, 8}
  <2>1. SUFFICES ASSUME NEW q \in Registers
                 PROVE  q.code \in 0 .. 15 /\ q.size \in {1, 2, 4, 8}
    OBVIOUS
  <2>2. PICK k \in 1 .. 8 :
          \/ q = Named(<< "R" >> \o WordNames[k], k - 1, 8)
          \/ q = Named(<< "E" >> \o WordNames[k], k - 1, 4)
          \/ q = Named(WordNames[k], k - 1, 2)
          \/ q = Named(ByteNames[k], k - 1, 1)
          \/ \E s \in SizeSuffixes : q = Named(<< "R" >> \o NumberNames[k] \o s[1], k + 7, s[2])
    BY Zenon DEF Registers
  <2>3. \E code, size : q.code = code /\ q.size = size
                         /\ code \in {k - 1, k + 7} /\ size \in {1, 2, 4, 8}
    <3>1. ASSUME NEW n, NEW code, NEW size, q = Named(n, code, size)
          PROVE  q.code = code /\ q.size = size
      BY <3>1 DEF Named
    <3>2. CASE q = Named(<< "R" >> \o WordNames[k], k - 1, 8)
      <4>1. q.code = k - 1 /\ q.size = 8  BY <3>1, <3>2, Zenon
      <4> QED  BY <4>1
    <3>3. CASE q = Named(<< "E" >> \o WordNames[k], k - 1, 4)
      <4>1. q.code = k - 1 /\ q.size = 4  BY <3>1, <3>3, Zenon
      <4> QED  BY <4>1
    <3>4. CASE q = Named(WordNames[k], k - 1, 2)
      <4>1. q.code = k - 1 /\ q.size = 2  BY <3>1, <3>4, Zenon
      <4> QED  BY <4>1
    <3>5. CASE q = Named(ByteNames[k], k - 1, 1)
      <4>1. q.code = k - 1 /\ q.size = 1  BY <3>1, <3>5, Zenon
      <4> QED  BY <4>1
    <3>6. CASE \E s \in SizeSuffixes :
                 q = Named(<< "R" >> \o NumberNames[k] \o s[1], k + 7, s[2])
      <4>1. PICK s \in SizeSuffixes :
              q = Named(<< "R" >> \o NumberNames[k] \o s[1], k + 7, s[2])
        BY <3>6, Zenon
      <4>2. q.code = k + 7 /\ q.size = s[2]  BY <3>1, <4>1, Zenon
      <4> QED  BY <1>3, <4>2
    <3> QED  BY <2>2, <3>2, <3>3, <3>4, <3>5, <3>6, Zenon
  <2> QED  BY <1>2, <2>3
<1>5. [code |-> r.code, size |-> r.size] \in Register
  BY <1>1, <1>4, Zenon DEF Register
<1> QED  BY <1>5, Zenon DEF get_register

Understood == Operand \cup {Refused}

LEMMA SmallIsDisplacement ==
  \A m \in Nat : m <= INT32_MAX => m \in Displacement /\ -m \in Displacement
<1>1. INT32_MAX \in Nat  BY SMT DEF INT32_MAX
<1>2. \A n, m \in Nat : m <= n => m \in -n .. n /\ -m \in -n .. n  BY SMT
<1> QED  BY <1>1, <1>2, Zenon DEF Displacement

LEMMA NoDisplacement == 0 \in Displacement
<1>1. 0 \in Nat /\ 0 <= INT32_MAX  BY SMT DEF INT32_MAX
<1> QED  BY <1>1, SmallIsDisplacement

LEMMA RegisterOperandIsTyped ==
  ASSUME NEW str, NEW indirect \in BOOLEAN, NEW displacement \in Displacement,
         ~indirect => displacement = 0
  PROVE  RegisterOperandOf(str, indirect, displacement) \in Understood
<1>1. CASE IsRegister(Upper(str))
  <2>1. get_register(Upper(str)) \in Register  BY <1>1, RegisterIsTyped
  <2>2. Op("REGISTER", indirect, displacement, get_register(Upper(str))) \in RegisterOperand
    BY <2>1 DEF Op, RegisterOperand
  <2> QED  BY <1>1, <2>2 DEF RegisterOperandOf, Understood, Operand
<1>2. CASE ~IsRegister(Upper(str))
  BY <1>2 DEF RegisterOperandOf, Understood
<1> QED  BY <1>1, <1>2

LEMMA LeastIsIn ==
  ASSUME NEW T, T \subseteq Nat, T # {}
  PROVE  Min(T) \in T
<1>1. \E x \in T : \A y \in T : x <= y  BY Smallest
<1> QED  BY <1>1, Zenon DEF Min

LEMMA StringOperandIsTyped ==
  ASSUME NEW str \in Text, NEW delim, NEW unwritten \in BOOLEAN
  PROVE  StringOperandOf(str, delim, unwritten) \in Understood
<1> DEFINE ends == StringEnds(str, delim)
<1>1. CASE ends = {}
  BY <1>1, Zenon DEF StringOperandOf, Understood
<1>2. CASE ends # {}
  <2>1. DOMAIN str = 1 .. Len(str) /\ Len(str) \in Nat  BY DEF Text
  <2>2. ends \subseteq DOMAIN str  BY Zenon DEF StringEnds
  <2>3. Min(ends) \in 1 .. Len(str)
    <3>1. ends \subseteq Nat  BY <2>1, <2>2, SMT
    <3>2. Min(ends) \in ends
      <4> HIDE DEF ends
      <4> QED  BY <1>2, <3>1, LeastIsIn
    <3> QED  BY <2>1, <2>2, <3>2, Zenon
  <2> DEFINE m == Min(ends) - 1
    codes == [k \in 1 .. m |-> Code(str[k])]
  <2>4. m \in Nat /\ \A k \in 1 .. m : k \in 1 .. Len(str)
    <3>1. \A e \in 1 .. Len(str) : e - 1 \in Nat /\ \A k \in 1 .. e - 1 : k \in 1 .. Len(str)
      BY <2>1, SMT
    <3> QED  BY <2>3, <3>1, Zenon
  <2>5. \A k \in 1 .. Len(str) : str[k] \in DOMAIN Codes  BY ElementOfSeq DEF Text
  <2> HIDE DEF m
  <2>6. \A k \in 1 .. m : Code(str[k]) \in Byte  BY <2>4, <2>5, CodeIsByte, Zenon
  <2>7. codes \in [1 .. m -> Byte]  BY <2>6, Zenon
  <2>8. codes \in Seq(Byte)
    <3> HIDE DEF codes
    <3> QED  BY <2>4, <2>7, SeqDef
  <2>9. Op("STRING", unwritten, 0, codes) \in StringOperand
    <3> HIDE DEF codes
    <3> QED  BY <2>8 DEF Op, StringOperand
  <2>10. StringOperandOf(str, delim, unwritten) = Op("STRING", unwritten, 0, codes)
    BY <1>2, Zenon DEF StringOperandOf, m
  <2> QED  BY <2>9, <2>10, Zenon DEF Understood, Operand
<1> QED  BY <1>1, <1>2

(* What is taken for a displacement fits its field, whatever its sign.     *)
LEMMA SignedIsDisplacement ==
  ASSUME NEW v \in Immediate, ~TooFar(v), NEW sign
  PROVE  Signed(Magnitude(v), sign) \in Displacement
<1>1. v[1] \in Byte /\ v[2] \in Byte /\ v[3] \in Byte /\ v[4] \in Byte
  BY SMT DEF Immediate
<1>2. v[4] < 128
  <2>1. ~(v[4] >= 128)  BY DEF TooFar
  <2> QED  BY <1>1, <2>1, SMT DEF Byte
<1>3. Magnitude(v) \in Nat /\ Magnitude(v) <= INT32_MAX
  <2> DEFINE two == 32767
    three == 8388607
  <2>1. \A a \in Byte, b \in Byte :
          b < 128 => a + 256 * b \in Nat /\ a + 256 * b <= two
    BY SMT DEF Byte
  <2>2. \A a \in Byte, b \in Nat :
          b <= two => a + 256 * b \in Nat /\ a + 256 * b <= three
    BY SMT DEF Byte
  <2>3. \A a \in Byte, b \in Nat :
          b <= three => a + 256 * b \in Nat /\ a + 256 * b <= INT32_MAX
    BY SMT DEF Byte, INT32_MAX
  <2> HIDE DEF two, three
  <2> DEFINE third == v[3] + 256 * v[4]
    second == v[2] + 256 * third
  <2>4. third \in Nat /\ third <= two  BY <1>1, <1>2, <2>1
  <2> HIDE DEF third
  <2>5. second \in Nat /\ second <= three  BY <1>1, <2>2, <2>4
  <2> HIDE DEF second
  <2>6. v[1] + 256 * second \in Nat /\ v[1] + 256 * second <= INT32_MAX
    BY <1>1, <2>3, <2>5
  <2> QED  BY <2>6 DEF Magnitude, second, third
<1>4. Magnitude(v) \in Displacement /\ -Magnitude(v) \in Displacement
  BY <1>3, SmallIsDisplacement
<1> QED  BY <1>4, Zenon DEF Signed

LEMMA SignIsInText ==
  ASSUME NEW str \in Text
  PROVE  SignPlace(str) \in 0 .. Len(str)
<1>1. DOMAIN str = 1 .. Len(str) /\ Len(str) \in Nat  BY DEF Text
<1>2. ASSUME NEW c, Places(str, c) # {} PROVE Min(Places(str, c)) \in 0 .. Len(str)
  <2>1. Places(str, c) \subseteq 1 .. Len(str)  BY <1>1, Zenon DEF Places
  <2>2. Places(str, c) \subseteq Nat  BY <1>1, <2>1, SMT
  <2>3. Min(Places(str, c)) \in 1 .. Len(str)  BY <1>2, <2>1, <2>2, LeastIsIn
  <2> QED  BY <1>1, <2>3, SMT
<1>3. 0 \in 0 .. Len(str)  BY <1>1, SMT
<1> QED  BY <1>2, <1>3, Zenon DEF SignPlace

LEMMA NameIsString == \A str : Name(str) \in STRING
<1>1. "none" \in STRING  BY StringAssumption
<1> QED  BY <1>1, Zenon DEF Name

LEMMA LabelOperandIsTyped ==
  ASSUME NEW indirect \in BOOLEAN, NEW str
  PROVE  Op("LABEL", indirect, 0, Name(str)) \in Understood
<1>1. Name(str) \in STRING  BY NameIsString
<1>2. Op("LABEL", indirect, 0, Name(str)) \in LabelOperand
  BY <1>1 DEF Op, LabelOperand
<1> QED  BY <1>2 DEF Understood, Operand

LEMMA AddressIsTyped ==
  ASSUME NEW str \in Text
  PROVE  AddressOf(str) \in Understood
<1> DEFINE at == SignPlace(str)
    displacement == process_number(Behind(str, at), FALSE)
<1>1. at \in 0 .. Len(str) /\ Len(str) \in Nat /\ at \in Nat
  <2>1. Len(str) \in Nat  BY DEF Text
  <2> QED  BY <2>1, SignIsInText, SMT
<1>2. Behind(str, at) \in Text  BY <1>1, BehindIsText
<1>3. displacement.value \in Immediate  BY <1>2, NumberIsTyped DEF NumberResult
<1>4. 0 \in Displacement  BY NoDisplacement
<1>5. RegisterOperandOf(str, TRUE, 0) \in Understood  BY <1>4, RegisterOperandIsTyped
<1>6. ~TooFar(displacement.value) =>
        RegisterOperandOf(SubSeq(str, 1, at - 1), TRUE,
                          Signed(Magnitude(displacement.value), str[at])) \in Understood
  <2> HIDE DEF at, displacement
  <2> QED  BY <1>3, SignedIsDisplacement, RegisterOperandIsTyped
<1>7. Op("LABEL", TRUE, 0, Name(Behind(str, 4))) \in Understood  BY LabelOperandIsTyped
<1>8. Refused \in Understood  BY DEF Understood
<1> QED  BY <1>5, <1>6, <1>7, <1>8, Zenon DEF AddressOf

(* Every operand that process_operand does not refuse is one that the      *)
(* mnemonic functions can be given.                                        *)
LEMMA OperandIsTyped ==
  ASSUME NEW operand \in Text, NEW unwritten \in BOOLEAN
  PROVE  process_operand(operand, unwritten) \in Understood
<1> DEFINE number == process_number(operand, TRUE)
<1>1. number.value \in Immediate  BY NumberIsTyped DEF NumberResult
<1>2. Op("IMMEDIATE", unwritten, 0, number.value) \in Understood
  <2> HIDE DEF number
  <2> QED  BY <1>1 DEF Op, ImmediateOperand, Operand, Understood
<1>3. Op("LABEL", unwritten, 0, Name(Behind(operand, 1))) \in Understood
  BY LabelOperandIsTyped
<1>4. StringOperandOf(Behind(operand, 1), operand[1], unwritten) \in Understood
  <2>1. Behind(operand, 1) \in Text  BY BehindIsText
  <2> QED  BY <2>1, StringOperandIsTyped
<1>5. AddressOf(SubSeq(operand, 2, Len(operand) - 1)) \in Understood
  <2>1. Len(operand) \in Nat  BY DEF Text
  <2>2. Len(operand) - 1 \in Int /\ Len(operand) - 1 <= Len(operand) /\ 2 \in Nat \ {0}
    BY <2>1, SMT
  <2>3. SubSeq(operand, 2, Len(operand) - 1) \in Text  BY <2>2, PieceIsText
  <2> QED  BY <2>3, AddressIsTyped
<1>6. RegisterOperandOf(operand, FALSE, 0) \in Understood
  <2>1. 0 \in Displacement  BY NoDisplacement
  <2> QED  BY <2>1, RegisterOperandIsTyped
<1> QED  BY <1>2, <1>3, <1>4, <1>5, <1>6, Zenon DEF process_operand

-----------------------------------------------------------------------------
(* The number in eight bytes, and the number that digits stand for.        *)
NumberIn(v) ==
  v[1] + 256 * (v[2] + 256 * (v[3] + 256 * (v[4] + 256 * (v[5] + 256 * (v[6]
       + 256 * (v[7] + 256 * v[8]))))))
WordSize == 256 * (256 * (256 * (256 * (256 * (256 * (256 * 256))))))   \* 2^64

Meaning(str, base) ==
  LET meaning[n \in 0 .. Len(str)] ==
        IF n = 0 THEN 0 ELSE meaning[n - 1] * base + DigitOf(str[n])
  IN  meaning[Len(str)]

(* A byte, or the bytes from one on, with the carry into them: what they   *)
(* become, and what goes out of the highest.                               *)
Column(byte, base, carry, becomes, out) ==
  /\ byte \in Int /\ carry \in Int /\ becomes \in Int /\ out \in Int
  /\ byte * base + carry = becomes + 256 * out

Balanced(bytes, base, carry, become, rest) ==
  /\ bytes \in Int /\ carry \in Int /\ become \in Int /\ rest \in Int
  /\ bytes * base + carry = become + rest

LEMMA WordSizeTimes ==
  \A n \in Int : 256 * (256 * (256 * (256 * (256 * (256 * (256 * (256 * n)))))))
                   = WordSize * n
<1>1. SUFFICES ASSUME NEW n \in Int
               PROVE  256 * (256 * (256 * (256 * (256 * (256 * (256 * (256 * n)))))))
                        = WordSize * n
  OBVIOUS
<1>2. \A a, m \in Int :
        m = a * n => 256 * m = (256 * a) * n /\ 256 * m \in Int /\ 256 * a \in Int
  BY SMT
<1> DEFINE m1 == 256 * n   a1 == 256
           m2 == 256 * m1  a2 == 256 * a1  m3 == 256 * m2  a3 == 256 * a2
           m4 == 256 * m3  a4 == 256 * a3  m5 == 256 * m4  a5 == 256 * a4
           m6 == 256 * m5  a6 == 256 * a5  m7 == 256 * m6  a7 == 256 * a6
           m8 == 256 * m7  a8 == 256 * a7
<1>3. m1 = a1 * n /\ m1 \in Int /\ a1 \in Int  BY SMT
<1> HIDE DEF m1, a1
<1>4. m2 = a2 * n /\ m2 \in Int /\ a2 \in Int  BY <1>2, <1>3
<1> HIDE DEF m2, a2
<1>5. m3 = a3 * n /\ m3 \in Int /\ a3 \in Int  BY <1>2, <1>4
<1> HIDE DEF m3, a3
<1>6. m4 = a4 * n /\ m4 \in Int /\ a4 \in Int  BY <1>2, <1>5
<1> HIDE DEF m4, a4
<1>7. m5 = a5 * n /\ m5 \in Int /\ a5 \in Int  BY <1>2, <1>6
<1> HIDE DEF m5, a5
<1>8. m6 = a6 * n /\ m6 \in Int /\ a6 \in Int  BY <1>2, <1>7
<1> HIDE DEF m6, a6
<1>9. m7 = a7 * n /\ m7 \in Int /\ a7 \in Int  BY <1>2, <1>8
<1> HIDE DEF m7, a7
<1>10. m8 = a8 * n  BY <1>2, <1>9
<1> QED
  BY <1>10, Zenon
     DEF WordSize, m1, m2, m3, m4, m5, m6, m7, m8, a1, a2, a3, a4, a5, a6, a7, a8

LEMMA DivMod ==
  \A n \in Int : /\ n \div 256 \in Int /\ n % 256 \in Int
                 /\ n = (n % 256) + 256 * (n \div 256)
  BY SMT

LEMMA OneByteMore ==
  ASSUME NEW base \in Int, NEW byte, NEW c0, NEW c1, NEW b, NEW bytes, NEW become, NEW rest,
         Column(byte, base, c0, b, c1), Balanced(bytes, base, c1, become, rest),
         NEW all, NEW all_become, NEW out,
         all = byte + 256 * bytes, all_become = b + 256 * become, out = 256 * rest
  PROVE  Balanced(all, base, c0, all_become, out)
<1>0. byte \in Int /\ c0 \in Int /\ b \in Int /\ c1 \in Int /\ byte * base + c0 = b + 256 * c1
  BY DEF Column
<1>1. bytes \in Int /\ become \in Int /\ rest \in Int /\ bytes * base + c1 = become + rest
  BY DEF Balanced
<1>2. (byte + 256 * bytes) * base = byte * base + 256 * (bytes * base)  BY <1>0, <1>1, SMT
<1> DEFINE x == byte * base   y == bytes * base
<1>3. x \in Int /\ y \in Int  BY <1>0, <1>1, SMT
<1>4. x + c0 = b + 256 * c1 /\ y + c1 = become + rest  BY <1>0, <1>1
<1> HIDE DEF x, y
<1>5. (x + 256 * y) + c0 = (b + 256 * become) + 256 * rest  BY <1>0, <1>1, <1>3, <1>4, SMT
<1>6. byte + 256 * bytes \in Int /\ b + 256 * become \in Int /\ 256 * rest \in Int
  BY <1>0, <1>1, SMT
<1>7. (byte + 256 * bytes) * base = x + 256 * y  BY <1>2 DEF x, y
<1> QED  BY <1>0, <1>5, <1>6, <1>7, Zenon DEF Balanced

(* One digit more: exact, but for what does not fit in eight bytes.        *)
LEMMA MulAddValue ==
  ASSUME NEW v \in Immediate, NEW base \in Nat, NEW digit \in Int
  PROVE  \E q \in Int :
           NumberIn(v) * base + digit = NumberIn(MulAdd(v, base, digit)) + WordSize * q
<1>1. PICK c :
        /\ Carries(c, v, base, digit)
        /\ MulAdd(v, base, digit) =
             << (v[1] * base + c[0]) % 256, (v[2] * base + c[1]) % 256,
                (v[3] * base + c[2]) % 256, (v[4] * base + c[3]) % 256,
                (v[5] * base + c[4]) % 256, (v[6] * base + c[5]) % 256,
                (v[7] * base + c[6]) % 256, (v[8] * base + c[7]) % 256 >>
  BY CarriesOfMulAdd
<1> DEFINE r == MulAdd(v, base, digit)
<1>2. \A k \in 1 .. 8 : k - 1 \in 0 .. 8 /\ k \in 0 .. 8  BY SMT
<1>3. \A k \in 1 .. 8 : v[k] \in Int  BY SMT DEF Immediate, Byte
<1>4. base \in Int /\ \A a, m, n \in Int : a * m + n \in Int  BY SMT
<1>5. \A k \in 0 .. 8 : c[k] \in Int  BY <1>1 DEF Carries
<1>6. /\ 1 - 1 = 0 /\ 2 - 1 = 1 /\ 3 - 1 = 2 /\ 4 - 1 = 3
      /\ 5 - 1 = 4 /\ 6 - 1 = 5 /\ 7 - 1 = 6 /\ 8 - 1 = 7
  BY SMT
<1>7. \A k \in 1 .. 8 : r[k] = (v[k] * base + c[k - 1]) % 256
  <2>1. \A k \in 1 .. 8 : k = 1 \/ k = 2 \/ k = 3 \/ k = 4 \/ k = 5 \/ k = 6 \/ k = 7 \/ k = 8
    BY SMT
  <2> DEFINE byte(k) == (v[k] * base + c[k - 1]) % 256
  <2>2. r = << byte(1), byte(2), byte(3), byte(4), byte(5), byte(6), byte(7), byte(8) >>
    BY <1>1, <1>6, Zenon
  <2> HIDE DEF byte, r
  <2>3. \A k \in 1 .. 8 : r[k] = byte(k)  BY <2>1, <2>2
  <2> QED  BY <2>3 DEF byte
<1>8. \A k \in 1 .. 8 : c[k] = (v[k] * base + c[k - 1]) \div 256  BY <1>1, Zenon DEF Carries
<1>9. \A k \in 1 .. 8 : Column(v[k], base, c[k - 1], r[k], c[k])
  <2>1. \A k \in 1 .. 8 : v[k] * base + c[k - 1] \in Int  BY <1>2, <1>3, <1>4, <1>5, Zenon
  <2> HIDE DEF r
  <2>2. SUFFICES ASSUME NEW k \in 1 .. 8 PROVE Column(v[k], base, c[k - 1], r[k], c[k])
    OBVIOUS
  <2> DEFINE n == v[k] * base + c[k - 1]
  <2>3. n \in Int /\ r[k] = n % 256 /\ c[k] = n \div 256  BY <1>7, <1>8, <2>1
  <2>4. v[k] \in Int /\ c[k - 1] \in Int /\ c[k] \in Int  BY <1>2, <1>3, <1>5
  <2> HIDE DEF n
  <2>5. r[k] \in Int /\ n = r[k] + 256 * c[k]  BY <2>3, DivMod
  <2> QED  BY <2>4, <2>5, Zenon DEF Column, n
<1>10. /\ Column(v[1], base, c[0], r[1], c[1]) /\ Column(v[2], base, c[1], r[2], c[2])
       /\ Column(v[3], base, c[2], r[3], c[3]) /\ Column(v[4], base, c[3], r[4], c[4])
       /\ Column(v[5], base, c[4], r[5], c[5]) /\ Column(v[6], base, c[5], r[6], c[6])
       /\ Column(v[7], base, c[6], r[7], c[7]) /\ Column(v[8], base, c[7], r[8], c[8])
  <2>1. /\ 1 \in 1 .. 8 /\ 2 \in 1 .. 8 /\ 3 \in 1 .. 8 /\ 4 \in 1 .. 8
        /\ 5 \in 1 .. 8 /\ 6 \in 1 .. 8 /\ 7 \in 1 .. 8 /\ 8 \in 1 .. 8
    BY SMT
  <2> QED  BY <1>6, <1>9, <2>1
<1> HIDE DEF r
<1>11. Balanced(v[8], base, c[7], r[8], 256 * c[8])
  <2>1. 256 * c[8] \in Int  BY <1>5, SMT
  <2> QED  BY <1>10, <2>1, Zenon DEF Balanced, Column
<1>12. base \in Int  BY <1>4
<1> DEFINE v7 == v[7] + 256 * v[8]   r7 == r[7] + 256 * r[8]   q7 == 256 * (256 * c[8])
    v6 == v[6] + 256 * v7   r6 == r[6] + 256 * r7   q6 == 256 * q7
    v5 == v[5] + 256 * v6   r5 == r[5] + 256 * r6   q5 == 256 * q6
    v4 == v[4] + 256 * v5   r4 == r[4] + 256 * r5   q4 == 256 * q5
    v3 == v[3] + 256 * v4   r3 == r[3] + 256 * r4   q3 == 256 * q4
    v2 == v[2] + 256 * v3   r2 == r[2] + 256 * r3   q2 == 256 * q3
    v1 == v[1] + 256 * v2   r1 == r[1] + 256 * r2   q1 == 256 * q2
<1>13. Balanced(v7, base, c[6], r7, q7)
  <2>1. v7 = v[7] + 256 * v[8] /\ r7 = r[7] + 256 * r[8] /\ q7 = 256 * (256 * c[8])  OBVIOUS
  <2>2. Column(v[7], base, c[6], r[7], c[7])  BY <1>10
  <2> HIDE DEF v7, r7, q7
  <2> QED  BY <1>11, <1>12, <2>1, <2>2, OneByteMore
<1> HIDE DEF v7, r7, q7
<1>14. Balanced(v6, base, c[5], r6, q6)
  <2>1. v6 = v[6] + 256 * v7 /\ r6 = r[6] + 256 * r7 /\ q6 = 256 * q7  OBVIOUS
  <2>2. Column(v[6], base, c[5], r[6], c[6])  BY <1>10
  <2> HIDE DEF v6, r6, q6
  <2> QED  BY <1>12, <1>13, <2>1, <2>2, OneByteMore
<1> HIDE DEF v6, r6, q6
<1>15. Balanced(v5, base, c[4], r5, q5)
  <2>1. v5 = v[5] + 256 * v6 /\ r5 = r[5] + 256 * r6 /\ q5 = 256 * q6  OBVIOUS
  <2>2. Column(v[5], base, c[4], r[5], c[5])  BY <1>10
  <2> HIDE DEF v5, r5, q5
  <2> QED  BY <1>12, <1>14, <2>1, <2>2, OneByteMore
<1> HIDE DEF v5, r5, q5
<1>16. Balanced(v4, base, c[3], r4, q4)
  <2>1. v4 = v[4] + 256 * v5 /\ r4 = r[4] + 256 * r5 /\ q4 = 256 * q5  OBVIOUS
  <2>2. Column(v[4], base, c[3], r[4], c[4])  BY <1>10
  <2> HIDE DEF v4, r4, q4
  <2> QED  BY <1>12, <1>15, <2>1, <2>2, OneByteMore
<1> HIDE DEF v4, r4, q4
<1>17. Balanced(v3, base, c[2], r3, q3)
  <2>1. v3 = v[3] + 256 * v4 /\ r3 = r[3] + 256 * r4 /\ q3 = 256 * q4  OBVIOUS
  <2>2. Column(v[3], base, c[2], r[3], c[3])  BY <1>10
  <2> HIDE DEF v3, r3, q3
  <2> QED  BY <1>12, <1>16, <2>1, <2>2, OneByteMore
<1> HIDE DEF v3, r3, q3
<1>18. Balanced(v2, base, c[1], r2, q2)
  <2>1. v2 = v[2] + 256 * v3 /\ r2 = r[2] + 256 * r3 /\ q2 = 256 * q3  OBVIOUS
  <2>2. Column(v[2], base, c[1], r[2], c[2])  BY <1>10
  <2> HIDE DEF v2, r2, q2
  <2> QED  BY <1>12, <1>17, <2>1, <2>2, OneByteMore
<1> HIDE DEF v2, r2, q2
<1>19. Balanced(v1, base, c[0], r1, q1)
  <2>1. v1 = v[1] + 256 * v2 /\ r1 = r[1] + 256 * r2 /\ q1 = 256 * q2  OBVIOUS
  <2>2. Column(v[1], base, c[0], r[1], c[1])  BY <1>10
  <2> HIDE DEF v1, r1, q1
  <2> QED  BY <1>12, <1>18, <2>1, <2>2, OneByteMore
<1> HIDE DEF v1, r1, q1
<1>20. NumberIn(r) = r1  BY Zenon DEF NumberIn, r1, r2, r3, r4, r5, r6, r7
<1>21. NumberIn(v) = v1  BY Zenon DEF NumberIn, v1, v2, v3, v4, v5, v6, v7
<1>22. q1 = WordSize * c[8]
  BY <1>5, <1>2, WordSizeTimes DEF q1, q2, q3, q4, q5, q6, q7
<1>23. c[0] = digit /\ c[8] \in Int  BY <1>1, <1>5 DEF Carries
<1> QED  BY <1>19, <1>20, <1>21, <1>22, <1>23, Zenon DEF r, Balanced
(* The number that the digits read so far stand for.                       *)
MeaningAfter(meaning, str, base) ==
  /\ meaning \in [0 .. Len(str) -> Int]
  /\ meaning[0] = 0
  /\ \A n \in 1 .. Len(str) : meaning[n] = meaning[n - 1] * base + DigitOf(str[n])

LEMMA MeaningExists ==
  ASSUME NEW str \in Text, NEW base \in Nat
  PROVE  \E meaning : MeaningAfter(meaning, str, base)
<1> DEFINE step == [p \in (1 .. Len(str)) \X Int |-> p[2] * base + DigitOf(str[p[1]])]
<1>1. Len(str) \in Nat  BY DEF Text
<1>2. \A n \in 1 .. Len(str) : DigitOf(str[n]) \in Int
  <2>1. \A n \in 1 .. Len(str) : str[n] \in DOMAIN Codes  BY ElementOfSeq DEF Text
  <2> QED  BY <2>1, DigitIsInt, Zenon
<1>3. step \in [(1 .. Len(str)) \X Int -> Int]
  <2>1. \A p \in (1 .. Len(str)) \X Int : p[1] \in 1 .. Len(str) /\ p[2] \in Int
    OBVIOUS
  <2>2. \A m, d \in Int : m * base + d \in Int  BY SMT
  <2>3. \A p \in (1 .. Len(str)) \X Int : p[2] * base + DigitOf(str[p[1]]) \in Int
    BY <1>2, <2>1, <2>2, Zenon
  <2> QED  BY <2>3, Zenon
<1>4. \E meaning : Follows(meaning, Len(str), Int, 0, step)
  <2>1. 0 \in Int  OBVIOUS
  <2> HIDE DEF step
  <2> QED  BY <1>1, <1>3, <2>1, Recursion
<1>5. PICK meaning : Follows(meaning, Len(str), Int, 0, step)  BY <1>4
<1>6. \A n \in 1 .. Len(str) :
        step[<< n, meaning[n - 1] >>] = meaning[n - 1] * base + DigitOf(str[n])
  <2>1. \A n \in 1 .. Len(str) : n - 1 \in 0 .. Len(str)  BY <1>1, SMT
  <2>2. \A n \in 1 .. Len(str) : << n, meaning[n - 1] >> \in (1 .. Len(str)) \X Int
    BY <2>1, <1>5 DEF Follows
  <2> QED  BY <2>2
<1>7. MeaningAfter(meaning, str, base)
  <2> HIDE DEF step
  <2> QED  BY <1>5, <1>6 DEF Follows, MeaningAfter
<1> QED  BY <1>7

LEMMA MeaningOfText ==
  ASSUME NEW str \in Text, NEW base \in Nat
  PROVE  \E meaning : /\ MeaningAfter(meaning, str, base)
                      /\ Meaning(str, base) = meaning[Len(str)]
<1> DEFINE Fits(m) ==
      m = [n \in 0 .. Len(str) |-> IF n = 0 THEN 0 ELSE m[n - 1] * base + DigitOf(str[n])]
    meaning == CHOOSE m : Fits(m)
<1>1. PICK m : MeaningAfter(m, str, base)  BY MeaningExists
<1>2. Len(str) \in Nat  BY DEF Text
<1>3. Fits(m)
  <2> DEFINE d == [n \in 0 .. Len(str) |->
                     IF n = 0 THEN 0 ELSE m[n - 1] * base + DigitOf(str[n])]
  <2>1. \A n \in 0 .. Len(str) : n = 0 \/ n \in 1 .. Len(str)  BY <1>2, SMT
  <2>2. \A n \in 0 .. Len(str) : m[n] = d[n]
    BY <1>1, <2>1, Zenon DEF MeaningAfter
  <2>3. m = [n \in 0 .. Len(str) |-> m[n]]  BY <1>1 DEF MeaningAfter
  <2> QED  BY <2>2, <2>3, Zenon
<1>4. Fits(meaning)
  <2> HIDE DEF Fits
  <2> QED  BY <1>3
<1>5. Meaning(str, base) = meaning[Len(str)]  BY Zenon DEF Meaning
<1> HIDE DEF meaning
<1>6. meaning[0] = 0
  <2>1. 0 \in 0 .. Len(str)  BY <1>2, SMT
  <2> QED  BY <1>4, <2>1, Zenon
<1>7. \A n \in 1 .. Len(str) : meaning[n] = meaning[n - 1] * base + DigitOf(str[n])
  <2>1. \A n \in 1 .. Len(str) : n \in 0 .. Len(str) /\ n # 0  BY <1>2, SMT
  <2> QED  BY <1>4, <2>1, Zenon
<1>8. \A n \in Nat : n <= Len(str) => meaning[n] = m[n]
  <2> DEFINE T == {n \in Nat : n <= Len(str) => meaning[n] = m[n]}
  <2>1. 0 \in T  BY <1>1, <1>6 DEF MeaningAfter
  <2>2. ASSUME NEW n \in Nat, n \in T PROVE n + 1 \in T
    <3>1. SUFFICES ASSUME n + 1 <= Len(str) PROVE meaning[n + 1] = m[n + 1]  BY SMT
    <3>2. n + 1 \in 1 .. Len(str) /\ (n + 1) - 1 = n /\ n <= Len(str)
      BY <1>2, <3>1, SMT
    <3> QED  BY <1>1, <1>7, <2>2, <3>2, Zenon DEF MeaningAfter
  <2>3. Nat \subseteq T
    <3> HIDE DEF T
    <3> QED  BY <2>1, <2>2, Induction
  <2> QED  BY <2>3
<1>9. meaning[Len(str)] = m[Len(str)]
  <2>1. Len(str) <= Len(str)  BY <1>2, SMT
  <2> QED  BY <1>2, <1>8, <2>1, Zenon
<1> QED  BY <1>1, <1>5, <1>9, Zenon

LEMMA NumberInFits == \A v \in Immediate : NumberIn(v) \in Nat /\ NumberIn(v) < WordSize
<1>1. SUFFICES ASSUME NEW v \in Immediate PROVE NumberIn(v) \in Nat /\ NumberIn(v) < WordSize
  OBVIOUS
<1>2. \A n \in Nat, a \in Byte, b \in Nat :
        b < n => a + 256 * b \in Nat /\ a + 256 * b < 256 * n
  BY SMT DEF Byte
<1>3. \A n \in Nat : 256 * n \in Nat  BY SMT
<1>4. /\ v[1] \in Byte /\ v[2] \in Byte /\ v[3] \in Byte /\ v[4] \in Byte
      /\ v[5] \in Byte /\ v[6] \in Byte /\ v[7] \in Byte /\ v[8] \in Byte
  BY SMT DEF Immediate
<1> DEFINE n1 == 256  n2 == 256 * n1  n3 == 256 * n2  n4 == 256 * n3
           n5 == 256 * n4  n6 == 256 * n5  n7 == 256 * n6  n8 == 256 * n7
           m7 == v[7] + 256 * v[8]  m6 == v[6] + 256 * m7  m5 == v[5] + 256 * m6
           m4 == v[4] + 256 * m5    m3 == v[3] + 256 * m4  m2 == v[2] + 256 * m3
           m1 == v[1] + 256 * m2
<1>5. n1 \in Nat /\ v[8] \in Nat /\ v[8] < n1  BY <1>4, SMT DEF Byte
<1>6. n8 = WordSize  BY Zenon DEF WordSize
<1> HIDE DEF n1
<1>7. n2 \in Nat /\ m7 \in Nat /\ m7 < n2  BY <1>2, <1>3, <1>4, <1>5
<1> HIDE DEF n2, m7
<1>8. n3 \in Nat /\ m6 \in Nat /\ m6 < n3  BY <1>2, <1>3, <1>4, <1>7
<1> HIDE DEF n3, m6
<1>9. n4 \in Nat /\ m5 \in Nat /\ m5 < n4  BY <1>2, <1>3, <1>4, <1>8
<1> HIDE DEF n4, m5
<1>10. n5 \in Nat /\ m4 \in Nat /\ m4 < n5  BY <1>2, <1>3, <1>4, <1>9
<1> HIDE DEF n5, m4
<1>11. n6 \in Nat /\ m3 \in Nat /\ m3 < n6  BY <1>2, <1>3, <1>4, <1>10
<1> HIDE DEF n6, m3
<1>12. n7 \in Nat /\ m2 \in Nat /\ m2 < n7  BY <1>2, <1>3, <1>4, <1>11
<1> HIDE DEF n7, m2
<1>13. m1 \in Nat /\ m1 < n8  BY <1>2, <1>3, <1>4, <1>12
<1>14. NumberIn(v) = m1  BY Zenon DEF NumberIn, m2, m3, m4, m5, m6, m7
<1> HIDE DEF m1, n8
<1> QED  BY <1>6, <1>13, <1>14, Zenon

(* What hex_str_to_num, binary_str_to_num and str_to_num return is what    *)
(* the digits stand for, of any number of digits, up to the 64 bits that a *)
(* uint64_t holds: every carry is passed on and none twice.                *)
THEOREM NumbersAreRead ==
  ASSUME NEW str \in Text, NEW base \in Nat
  PROVE  NumberIn(ToNumber(str, base)) = Meaning(str, base) % WordSize
<1>1. PICK r : /\ NumberAfter(r, str, base)
               /\ ToNumber(str, base) = r[Len(str)]
  BY NumberOfText
<1>2. PICK m : /\ MeaningAfter(m, str, base)
               /\ Meaning(str, base) = m[Len(str)]
  BY MeaningOfText
<1>3. Len(str) \in Nat  BY DEF Text
<1> DEFINE Equal(n) == \E q \in Int : m[n] = NumberIn(r[n]) + WordSize * q
    T == {n \in Nat : n <= Len(str) => Equal(n)}
<1>4. 0 \in T
  <2>1. \A k \in 1 .. 8 : Zeros(8)[k] = 0  BY SMT DEF Zeros
  <2>2. NumberIn(Zeros(8)) = 0
    <3>1. /\ Zeros(8)[1] = 0 /\ Zeros(8)[2] = 0 /\ Zeros(8)[3] = 0 /\ Zeros(8)[4] = 0
          /\ Zeros(8)[5] = 0 /\ Zeros(8)[6] = 0 /\ Zeros(8)[7] = 0 /\ Zeros(8)[8] = 0
      BY <2>1, SMT
    <3> QED  BY <3>1, SMT DEF NumberIn
  <2>3. m[0] = 0 /\ r[0] = Zeros(8)  BY <1>1, <1>2 DEF NumberAfter, MeaningAfter
  <2>4. 0 = 0 + WordSize * 0  BY SMT DEF WordSize
  <2>5. m[0] = NumberIn(r[0]) + WordSize * 0  BY <2>2, <2>3, <2>4
  <2> QED  BY <2>5
<1>5. ASSUME NEW n \in Nat, n \in T PROVE n + 1 \in T
  <2>1. SUFFICES ASSUME n + 1 <= Len(str) PROVE Equal(n + 1)  BY SMT
  <2>2. n + 1 \in 1 .. Len(str) /\ (n + 1) - 1 = n /\ n <= Len(str) /\ n \in 0 .. Len(str)
    BY <1>3, <2>1, SMT
  <2>3. PICK q \in Int : m[n] = NumberIn(r[n]) + WordSize * q  BY <1>5, <2>2
  <2> DEFINE digit == DigitOf(str[n + 1])
  <2>4. digit \in Int
    <3>1. str[n + 1] \in DOMAIN Codes  BY <2>2, ElementOfSeq DEF Text
    <3> QED  BY <3>1, DigitIsInt
  <2>5. r[n] \in Immediate /\ r[n + 1] = MulAdd(r[n], base, digit)
    BY <1>1, <2>2, Zenon DEF NumberAfter
  <2>6. m[n + 1] = m[n] * base + digit  BY <1>2, <2>2, Zenon DEF MeaningAfter
  <2> HIDE DEF digit
  <2>7. PICK p \in Int : NumberIn(r[n]) * base + digit = NumberIn(r[n + 1]) + WordSize * p
    BY <2>4, <2>5, MulAddValue
  <2>8. NumberIn(r[n]) \in Int /\ NumberIn(r[n + 1]) \in Int
    BY <2>4, <2>5, MulAddIsImmediate, NumberInFits
  <2>9. WordSize \in Int  BY SMT DEF WordSize
  <2>10. \A a, b, d, w, x, y \in Int :
           a * base + d = b + w * y => (a + w * x) * base + d = b + w * (y + x * base)
    BY SMT
  <2>11. m[n + 1] = NumberIn(r[n + 1]) + WordSize * (p + q * base)
    BY <2>3, <2>4, <2>6, <2>7, <2>8, <2>9, <2>10
  <2>12. p + q * base \in Int  BY SMT
  <2> QED  BY <2>11, <2>12
<1>6. Equal(Len(str))
  <2>1. Nat \subseteq T
    <3> HIDE DEF T
    <3> QED  BY <1>4, <1>5, Induction
  <2>2. Len(str) <= Len(str)  BY <1>3, SMT
  <2> QED  BY <1>3, <2>1, <2>2
<1>7. NumberIn(r[Len(str)]) \in Nat /\ NumberIn(r[Len(str)]) < WordSize
  BY <1>1, ToNumberIsImmediate, NumberInFits
<1>8. \A a \in Nat, q \in Int : a < WordSize => (a + WordSize * q) % WordSize = a
  BY SMT DEF WordSize
<1> QED  BY <1>1, <1>2, <1>6, <1>7, <1>8

-----------------------------------------------------------------------------
(* The registers: the letters and digits of their names, of which no two   *)
(* are the same.                                                           *)
NameChars == Range(UpperChars) \cup Range(DigitChars)

LEMMA WordLetters ==
  /\ \A k \in 1 .. 8 : /\ WordNames[k] \in Seq(NameChars) /\ Len(WordNames[k]) = 2
                       /\ WordNames[k][1] \in Range(UpperChars)
                       /\ WordNames[k][2] \in {"X", "P", "I"}
  /\ \A k, j \in 1 .. 8 : WordNames[k][1] = WordNames[j][1]
                           /\ WordNames[k][2] = WordNames[j][2] => k = j
<1>1. {"A", "B", "C", "D", "S", "X", "P", "I"} \subseteq Range(UpperChars)
  BY DEF Range, UpperChars
<1>2. \A k \in 1 .. 8 : k = 1 \/ k = 2 \/ k = 3 \/ k = 4 \/ k = 5 \/ k = 6 \/ k = 7 \/ k = 8
  BY SMT
<1>3. /\ WordNames[1] = << "A", "X" >> /\ WordNames[2] = << "C", "X" >>
      /\ WordNames[3] = << "D", "X" >> /\ WordNames[4] = << "B", "X" >>
      /\ WordNames[5] = << "S", "P" >> /\ WordNames[6] = << "B", "P" >>
      /\ WordNames[7] = << "S", "I" >> /\ WordNames[8] = << "D", "I" >>
  BY SMT DEF WordNames
<1>4. ASSUME NEW a \in {"A", "B", "C", "D", "S"}, NEW b \in {"X", "P", "I"}
      PROVE  /\ << a, b >> \in Seq(NameChars) /\ Len(<< a, b >>) = 2
             /\ << a, b >>[1] = a /\ << a, b >>[2] = b /\ a \in Range(UpperChars)
  BY <1>1, SMT DEF NameChars
<1>5. \A k \in 1 .. 8 : \E a \in {"A", "B", "C", "D", "S"}, b \in {"X", "P", "I"} :
                          WordNames[k] = << a, b >>
  BY <1>2, <1>3, Zenon
<1>6. ASSUME NEW k \in 1 .. 8, NEW j \in 1 .. 8, WordNames[k][1] = WordNames[j][1],
             WordNames[k][2] = WordNames[j][2]
      PROVE  k = j
  BY <1>2, <1>3, <1>6, SMT
<1>7. ASSUME NEW k \in 1 .. 8
      PROVE  /\ WordNames[k] \in Seq(NameChars) /\ Len(WordNames[k]) = 2
             /\ WordNames[k][1] \in Range(UpperChars)
             /\ WordNames[k][2] \in {"X", "P", "I"}
  <2>1. PICK a \in {"A", "B", "C", "D", "S"}, b \in {"X", "P", "I"} : WordNames[k] = << a, b >>
    BY <1>5
  <2>2. /\ << a, b >> \in Seq(NameChars) /\ Len(<< a, b >>) = 2
         /\ << a, b >>[1] = a /\ << a, b >>[2] = b /\ a \in Range(UpperChars)
    BY <1>4
  <2> QED  BY <2>1, <2>2, Zenon
<1> QED  BY <1>6, <1>7, Zenon

LEMMA ByteLetters ==
  /\ \A k \in 1 .. 8 : /\ ByteNames[k] \in Seq(NameChars) /\ Len(ByteNames[k]) = 2
                       /\ ByteNames[k][1] \in Range(UpperChars)
                       /\ ByteNames[k][2] \in {"L", "H"}
  /\ \A k, j \in 1 .. 8 : ByteNames[k][1] = ByteNames[j][1]
                           /\ ByteNames[k][2] = ByteNames[j][2] => k = j
<1>1. {"A", "B", "C", "D", "L", "H"} \subseteq Range(UpperChars)
  BY DEF Range, UpperChars
<1>2. \A k \in 1 .. 8 : k = 1 \/ k = 2 \/ k = 3 \/ k = 4 \/ k = 5 \/ k = 6 \/ k = 7 \/ k = 8
  BY SMT
<1>3. /\ ByteNames[1] = << "A", "L" >> /\ ByteNames[2] = << "C", "L" >>
      /\ ByteNames[3] = << "D", "L" >> /\ ByteNames[4] = << "B", "L" >>
      /\ ByteNames[5] = << "A", "H" >> /\ ByteNames[6] = << "C", "H" >>
      /\ ByteNames[7] = << "D", "H" >> /\ ByteNames[8] = << "B", "H" >>
  BY SMT DEF ByteNames
<1>4. ASSUME NEW a \in {"A", "B", "C", "D"}, NEW b \in {"L", "H"}
      PROVE  /\ << a, b >> \in Seq(NameChars) /\ Len(<< a, b >>) = 2
             /\ << a, b >>[1] = a /\ << a, b >>[2] = b /\ a \in Range(UpperChars)
  BY <1>1, SMT DEF NameChars
<1>5. \A k \in 1 .. 8 : \E a \in {"A", "B", "C", "D"}, b \in {"L", "H"} :
                          ByteNames[k] = << a, b >>
  BY <1>2, <1>3, Zenon
<1>6. ASSUME NEW k \in 1 .. 8, NEW j \in 1 .. 8, ByteNames[k][1] = ByteNames[j][1],
             ByteNames[k][2] = ByteNames[j][2]
      PROVE  k = j
  BY <1>2, <1>3, <1>6, SMT
<1>7. ASSUME NEW k \in 1 .. 8
      PROVE  /\ ByteNames[k] \in Seq(NameChars) /\ Len(ByteNames[k]) = 2
             /\ ByteNames[k][1] \in Range(UpperChars)
             /\ ByteNames[k][2] \in {"L", "H"}
  <2>1. PICK a \in {"A", "B", "C", "D"}, b \in {"L", "H"} : ByteNames[k] = << a, b >>
    BY <1>5
  <2> QED  BY <1>4, <2>1, Zenon
<1> QED  BY <1>6, <1>7, Zenon

(* A number of one digit is 8 or 9, one of two begins with 1.              *)
LEMMA NumberDigits ==
  /\ \A k \in 1 .. 8 :
       /\ NumberNames[k] \in Seq(NameChars)
       /\ NumberNames[k][1] \in Range(DigitChars)
       /\ \/ k <= 2 /\ Len(NumberNames[k]) = 1 /\ NumberNames[k][1] \in {"8", "9"}
          \/ k > 2 /\ Len(NumberNames[k]) = 2 /\ NumberNames[k][1] = "1"
  /\ NumberNames[1][1] # NumberNames[2][1]
  /\ \A k, j \in 3 .. 8 : NumberNames[k][2] = NumberNames[j][2] => k = j
<1>1. {"0", "1", "2", "3", "4", "5", "8", "9"} \subseteq Range(DigitChars)
  BY DEF Range, DigitChars
<1>2. \A k \in 1 .. 8 : k = 1 \/ k = 2 \/ k \in 3 .. 8
  BY SMT
<1>3. /\ NumberNames[1] = << "8" >> /\ NumberNames[2] = << "9" >>
      /\ NumberNames[3] = << "1", "0" >> /\ NumberNames[4] = << "1", "1" >>
      /\ NumberNames[5] = << "1", "2" >> /\ NumberNames[6] = << "1", "3" >>
      /\ NumberNames[7] = << "1", "4" >> /\ NumberNames[8] = << "1", "5" >>
  BY SMT DEF NumberNames
<1>4. \A k \in 3 .. 8 : k = 3 \/ k = 4 \/ k = 5 \/ k = 6 \/ k = 7 \/ k = 8
  BY SMT
<1>5. ASSUME NEW b \in {"0", "1", "2", "3", "4", "5"}
      PROVE  /\ << "1", b >> \in Seq(NameChars) /\ Len(<< "1", b >>) = 2
             /\ << "1", b >>[1] = "1" /\ << "1", b >>[2] = b
  BY <1>1, SMT DEF NameChars
<1>6. ASSUME NEW a \in {"8", "9"}
      PROVE  << a >> \in Seq(NameChars) /\ Len(<< a >>) = 1 /\ << a >>[1] = a
  BY <1>1, SMT DEF NameChars
<1>7. \A k \in 3 .. 8 : k > 2 /\ \E b \in {"0", "1", "2", "3", "4", "5"} :
                                   NumberNames[k] = << "1", b >>
  <2>1. \A k \in 3 .. 8 : k > 2  BY SMT
  <2> QED  BY <1>3, <1>4, <2>1, Zenon
<1>8. \A k \in 1 .. 8 :
       /\ NumberNames[k] \in Seq(NameChars)
       /\ NumberNames[k][1] \in Range(DigitChars)
       /\ \/ k <= 2 /\ Len(NumberNames[k]) = 1 /\ NumberNames[k][1] \in {"8", "9"}
          \/ k > 2 /\ Len(NumberNames[k]) = 2 /\ NumberNames[k][1] = "1"
  <2> SUFFICES ASSUME NEW k \in 1 .. 8
               PROVE  /\ NumberNames[k] \in Seq(NameChars)
                      /\ NumberNames[k][1] \in Range(DigitChars)
                      /\ \/ k <= 2 /\ Len(NumberNames[k]) = 1 /\ NumberNames[k][1] \in {"8", "9"}
                         \/ k > 2 /\ Len(NumberNames[k]) = 2 /\ NumberNames[k][1] = "1"
    OBVIOUS
  <2>1. CASE k \in 3 .. 8
    <3>1. PICK b \in {"0", "1", "2", "3", "4", "5"} : NumberNames[k] = << "1", b >>
      BY <1>7, <2>1
    <3> QED  BY <1>1, <1>5, <1>7, <2>1, <3>1
  <2>2. CASE k = 1 \/ k = 2
    <3>1. k <= 2  BY <2>2, SMT
    <3>2. NumberNames[k] = << "8" >> \/ NumberNames[k] = << "9" >>  BY <1>3, <2>2, Zenon
    <3> QED  BY <1>1, <1>6, <3>1, <3>2
  <2> QED  BY <1>2, <2>1, <2>2
<1>9. NumberNames[1][1] # NumberNames[2][1]  BY <1>3, SMT
<1>10. ASSUME NEW k \in 3 .. 8, NEW j \in 3 .. 8, NumberNames[k][2] = NumberNames[j][2]
       PROVE  k = j
  BY <1>3, <1>4, <1>10, SMT
<1> QED  BY <1>8, <1>9, <1>10

LEMMA SuffixLetters ==
  ASSUME NEW s \in SizeSuffixes
  PROVE  /\ s[1] \in Seq(NameChars)
         /\ \/ s[1] = << >> /\ Len(s[1]) = 0 /\ s[2] = 8
            \/ Len(s[1]) = 1 /\ s[1][1] = "D" /\ s[2] = 4
            \/ Len(s[1]) = 1 /\ s[1][1] = "W" /\ s[2] = 2
            \/ Len(s[1]) = 1 /\ s[1][1] = "L" /\ s[2] = 1
<1>1. {"D", "W", "L"} \subseteq Range(UpperChars)  BY DEF Range, UpperChars
<1>2. \/ s[1] = << >> /\ s[2] = 8
      \/ s[1] = << "D" >> /\ s[2] = 4
      \/ s[1] = << "W" >> /\ s[2] = 2
      \/ s[1] = << "L" >> /\ s[2] = 1
  BY DEF SizeSuffixes
<1>3. << >> \in Seq(NameChars) /\ Len(<< >>) = 0  BY EmptySeq
<1>4. ASSUME NEW c \in {"D", "W", "L"}
      PROVE  << c >> \in Seq(NameChars) /\ Len(<< c >>) = 1 /\ << c >>[1] = c
  BY <1>1, SMT DEF NameChars
<1>5. "D" \in {"D", "W", "L"} /\ "W" \in {"D", "W", "L"} /\ "L" \in {"D", "W", "L"}
  OBVIOUS
<1>6. CASE s[1] = << >> /\ s[2] = 8  BY <1>3, <1>6
<1>7. CASE s[1] = << "D" >> /\ s[2] = 4  BY <1>4, <1>5, <1>7
<1>8. CASE s[1] = << "W" >> /\ s[2] = 2  BY <1>4, <1>5, <1>8
<1>9. CASE s[1] = << "L" >> /\ s[2] = 1  BY <1>4, <1>5, <1>9
<1> QED  BY <1>2, <1>6, <1>7, <1>8, <1>9

(* The five ways in which a register is named.                             *)
Widened(q, letter, size, k) ==
  /\ Len(q.name) = 3 /\ q.name[1] = letter
  /\ q.name[2] = WordNames[k][1] /\ q.name[3] = WordNames[k][2]
  /\ q.code = k - 1 /\ q.size = size
TwoLetters(q, names, size, k) ==
  /\ Len(q.name) = 2
  /\ q.name[1] = names[k][1] /\ q.name[2] = names[k][2]
  /\ q.code = k - 1 /\ q.size = size
NumberedAs(q, s, k) ==
  /\ Len(q.name) = 1 + Len(NumberNames[k]) + Len(s[1])
  /\ q.name[1] = "R" /\ q.name[2] = NumberNames[k][1]
  /\ k > 2 => q.name[3] = NumberNames[k][2]
  /\ Len(s[1]) = 1 => q.name[Len(q.name)] = s[1][1]
  /\ q.code = k + 7 /\ q.size = s[2]

NamedAs(q, k) ==
  \/ Widened(q, "R", 8, k)
  \/ Widened(q, "E", 4, k)
  \/ TwoLetters(q, WordNames, 2, k)
  \/ TwoLetters(q, ByteNames, 1, k)
  \/ \E s \in SizeSuffixes : NumberedAs(q, s, k)

LEMMA WidenedIsSo ==
  ASSUME NEW k \in 1 .. 8, NEW letter \in Range(UpperChars), NEW size, NEW q,
         q = Named(<< letter >> \o WordNames[k], k - 1, size)
  PROVE  Widened(q, letter, size, k) /\ q.name \in Seq(NameChars)
<1> DEFINE a == << letter >>
<1>1. a \in Seq(NameChars) /\ Len(a) = 1 /\ a[1] = letter
  BY SMT DEF NameChars
<1> HIDE DEF a
<1>2. WordNames[k] \in Seq(NameChars) /\ Len(WordNames[k]) = 2  BY WordLetters
<1> DEFINE n == a \o WordNames[k]
<1>3. /\ n \in Seq(NameChars)
      /\ Len(n) = 1 + 2
      /\ \A i \in 1 .. 1 + 2 : n[i] = IF i <= 1 THEN a[i] ELSE WordNames[k][i - 1]
  BY <1>1, <1>2, ConcatProperties
<1>4. Len(n) = 3 /\ n[1] = letter /\ n[2] = WordNames[k][1] /\ n[3] = WordNames[k][2]
  <2> HIDE DEF n
  <2> QED  BY <1>1, <1>3, SMT
<1>5. q.name = n /\ q.code = k - 1 /\ q.size = size  BY DEF Named, a
<1> QED  BY <1>3, <1>4, <1>5, Zenon DEF Widened

LEMMA TwoLettersIsSo ==
  ASSUME NEW k \in 1 .. 8, NEW names, Len(names[k]) = 2, NEW size, NEW q,
         q = Named(names[k], k - 1, size)
  PROVE  TwoLetters(q, names, size, k) /\ q.name = names[k]
<1>1. q.name = names[k] /\ q.code = k - 1 /\ q.size = size  BY DEF Named
<1> QED  BY <1>1, Zenon DEF TwoLetters

LEMMA NumberedIsSo ==
  ASSUME NEW k \in 1 .. 8, NEW s \in SizeSuffixes, NEW q,
         q = Named(<< "R" >> \o NumberNames[k] \o s[1], k + 7, s[2])
  PROVE  NumberedAs(q, s, k) /\ q.name \in Seq(NameChars)
<1>1. << "R" >> \in Seq(NameChars) /\ Len(<< "R" >>) = 1 /\ << "R" >>[1] = "R"
  <2>1. "R" \in Range(UpperChars)  BY DEF Range, UpperChars
  <2> QED  BY <2>1, SMT DEF NameChars
<1>2. /\ NumberNames[k] \in Seq(NameChars) /\ Len(NumberNames[k]) \in Nat
      /\ Len(NumberNames[k]) >= 1 /\ (k > 2 => Len(NumberNames[k]) = 2)
  <2>1. /\ NumberNames[k] \in Seq(NameChars)
        /\ \/ k <= 2 /\ Len(NumberNames[k]) = 1
           \/ k > 2 /\ Len(NumberNames[k]) = 2
    BY NumberDigits, Zenon
  <2>2. \A m : (k <= 2 /\ m = 1) \/ (k > 2 /\ m = 2) =>
                 m \in Nat /\ m >= 1 /\ (k > 2 => m = 2)
    BY SMT
  <2> QED  BY <2>1, <2>2, Zenon
<1>3. s[1] \in Seq(NameChars) /\ (Len(s[1]) = 0 \/ Len(s[1]) = 1)  BY SuffixLetters
<1> DEFINE a == << "R" >> \o NumberNames[k]
           n == a \o s[1]
           l == Len(NumberNames[k])
           m == Len(s[1])
<1>4. /\ a \in Seq(NameChars)
      /\ Len(a) = 1 + l
      /\ \A i \in 1 .. 1 + l : a[i] = IF i <= 1 THEN << "R" >>[i] ELSE NumberNames[k][i - 1]
  BY <1>1, <1>2, ConcatProperties
<1> HIDE DEF a
<1>5. /\ n \in Seq(NameChars)
      /\ Len(n) = Len(a) + m
      /\ \A i \in 1 .. Len(a) + m : n[i] = IF i <= Len(a) THEN a[i] ELSE s[1][i - Len(a)]
  BY <1>3, <1>4, ConcatProperties
<1>6. q.name = n /\ q.code = k + 7 /\ q.size = s[2]  BY DEF Named, a
<1> HIDE DEF n
<1>7. /\ Len(n) = 1 + l + m
      /\ n[1] = "R" /\ n[2] = NumberNames[k][1]
      /\ k > 2 => n[3] = NumberNames[k][2]
      /\ m = 1 => n[Len(n)] = s[1][1]
  <2> HIDE DEF l, m
  <2>1. l \in Nat /\ l >= 1 /\ (k > 2 => l = 2) /\ (m = 0 \/ m = 1)  BY <1>2, <1>3 DEF l, m
  <2>2. Len(n) = 1 + l + m  BY <1>4, <1>5, <2>1, SMT
  <2>3. n[1] = "R" /\ n[2] = NumberNames[k][1]
    <3>1. a[1] = "R" /\ a[2] = NumberNames[k][1]  BY <1>1, <1>4, <2>1, SMT
    <3> QED  BY <1>4, <1>5, <2>1, <3>1, SMT
  <2>4. k > 2 => n[3] = NumberNames[k][2]
    <3>1. k > 2 => a[3] = NumberNames[k][2]  BY <1>4, <2>1, SMT
    <3> QED  BY <1>4, <1>5, <2>1, <3>1, SMT
  <2>5. m = 1 => n[Len(n)] = s[1][1]  BY <1>4, <1>5, <2>1, SMT
  <2> QED  BY <2>2, <2>3, <2>4, <2>5
<1> QED  BY <1>5, <1>6, <1>7, Zenon DEF NumberedAs, l, m

LEMMA RegisterIsNamed ==
  ASSUME NEW q \in Registers
  PROVE  /\ q.name \in Seq(NameChars)
         /\ \E k \in 1 .. 8 : NamedAs(q, k)
<1>1. PICK k \in 1 .. 8 :
        \/ q = Named(<< "R" >> \o WordNames[k], k - 1, 8)
        \/ q = Named(<< "E" >> \o WordNames[k], k - 1, 4)
        \/ q = Named(WordNames[k], k - 1, 2)
        \/ q = Named(ByteNames[k], k - 1, 1)
        \/ \E s \in SizeSuffixes : q = Named(<< "R" >> \o NumberNames[k] \o s[1], k + 7, s[2])
  BY Zenon DEF Registers
<1>2. "R" \in Range(UpperChars) /\ "E" \in Range(UpperChars)  BY DEF Range, UpperChars
<1>3. /\ WordNames[k] \in Seq(NameChars) /\ Len(WordNames[k]) = 2
      /\ ByteNames[k] \in Seq(NameChars) /\ Len(ByteNames[k]) = 2
  BY WordLetters, ByteLetters, Zenon
<1>4. CASE q = Named(<< "R" >> \o WordNames[k], k - 1, 8)
  BY <1>2, <1>4, WidenedIsSo, Zenon DEF NamedAs
<1>5. CASE q = Named(<< "E" >> \o WordNames[k], k - 1, 4)
  BY <1>2, <1>5, WidenedIsSo, Zenon DEF NamedAs
<1>6. CASE q = Named(WordNames[k], k - 1, 2)
  <2>1. TwoLetters(q, WordNames, 2, k) /\ q.name = WordNames[k]
    BY <1>3, <1>6, TwoLettersIsSo, Zenon
  <2> QED  BY <1>3, <2>1, Zenon DEF NamedAs
<1>7. CASE q = Named(ByteNames[k], k - 1, 1)
  <2>1. TwoLetters(q, ByteNames, 1, k) /\ q.name = ByteNames[k]
    BY <1>3, <1>7, TwoLettersIsSo, Zenon
  <2> QED  BY <1>3, <2>1, Zenon DEF NamedAs
<1>8. CASE \E s \in SizeSuffixes : q = Named(<< "R" >> \o NumberNames[k] \o s[1], k + 7, s[2])
  BY <1>8, NumberedIsSo, Zenon DEF NamedAs
<1> QED  BY <1>1, <1>4, <1>5, <1>6, <1>7, <1>8, Zenon

LEMMA LettersAreNoDigits ==
  /\ \A c \in Range(UpperChars) : c \notin Range(DigitChars)
  /\ "8" \in Range(DigitChars) /\ "9" \in Range(DigitChars) /\ "1" \in Range(DigitChars)
  BY DEF Range, UpperChars, DigitChars

(* No two registers have the same name.                                    *)
LEMMA NameIsUnique ==
  ASSUME NEW q \in Registers, NEW r \in Registers, q.name = r.name
  PROVE  q.code = r.code /\ q.size = r.size
<1>1. PICK k \in 1 .. 8 : NamedAs(q, k)  BY RegisterIsNamed
<1>2. PICK j \in 1 .. 8 : NamedAs(r, j)  BY RegisterIsNamed
<1> DEFINE w(i) == WordNames[i]
           b(i) == ByteNames[i]
           n(i) == NumberNames[i]
<1>3. /\ \A i \in {k, j} : /\ w(i)[1] \in Range(UpperChars) /\ w(i)[2] \in {"X", "P", "I"}
                           /\ b(i)[1] \in Range(UpperChars) /\ b(i)[2] \in {"L", "H"}
                           /\ n(i)[1] \in Range(DigitChars)
      /\ w(k)[1] = w(j)[1] /\ w(k)[2] = w(j)[2] => k = j
      /\ b(k)[1] = b(j)[1] /\ b(k)[2] = b(j)[2] => k = j
  BY WordLetters, ByteLetters, NumberDigits
<1>4. {"X", "P", "I", "L", "H"} \subseteq Range(UpperChars)  BY DEF Range, UpperChars
<1>5. ASSUME NEW s \in SizeSuffixes, NEW t \in SizeSuffixes,
             NumberedAs(q, s, k), NumberedAs(r, t, j)
      PROVE  k = j /\ s[2] = t[2]
  <2>1. \A i \in {k, j} :
          \/ i <= 2 /\ Len(n(i)) = 1 /\ n(i)[1] \in {"8", "9"}
          \/ i > 2 /\ Len(n(i)) = 2 /\ n(i)[1] = "1"
    BY NumberDigits
  <2>2. n(k)[1] = n(j)[1]  BY <1>5 DEF NumberedAs
  <2>3. k = j
    <3>1. CASE k <= 2 /\ j <= 2
      <4>1. k \in {1, 2} /\ j \in {1, 2}  BY <3>1, SMT
      <4> QED  BY <2>2, <4>1, NumberDigits
    <3>2. CASE k > 2 /\ j > 2
      <4>1. k \in 3 .. 8 /\ j \in 3 .. 8  BY <3>2, SMT
      <4>2. n(k)[2] = n(j)[2]  BY <1>5, <3>2 DEF NumberedAs
      <4> QED  BY <4>1, <4>2, NumberDigits
    <3>3. (k > 2) <=> (j > 2)
      <4> HIDE DEF n
      <4> QED  BY <2>1, <2>2, SMT
    <3> QED  BY <3>1, <3>2, <3>3, SMT
  <2>4. Len(s[1]) \in Nat /\ Len(t[1]) \in Nat  BY SuffixLetters
  <2>5. Len(n(k)) \in Nat  BY <2>1
  <2>6. Len(s[1]) = Len(t[1])
    <3>1. 1 + Len(n(k)) + Len(s[1]) = 1 + Len(n(k)) + Len(t[1])
      BY <1>5, <2>3, Zenon DEF NumberedAs
    <3>2. \A x, y, z \in Nat : 1 + x + y = 1 + x + z => y = z  BY SMT
    <3> QED  BY <2>4, <2>5, <3>1, <3>2
  <2>7. Len(s[1]) = 1 => s[1][1] = t[1][1]
    BY <1>5, <2>6, Zenon DEF NumberedAs
  <2>8. s[2] = t[2]  BY <2>6, <2>7, SuffixLetters
  <2> QED  BY <2>3, <2>8
<1>6. CASE (\E s \in SizeSuffixes : NumberedAs(q, s, k))
           /\ (\E t \in SizeSuffixes : NumberedAs(r, t, j))
  <2>1. PICK s \in SizeSuffixes, t \in SizeSuffixes : NumberedAs(q, s, k) /\ NumberedAs(r, t, j)
    BY <1>6
  <2> QED  BY <1>5, <2>1, Zenon DEF NumberedAs
<1>7. ASSUME NEW x, NEW y, x.name = y.name, NEW s \in SizeSuffixes,
             NEW i \in {k, j}, NEW o \in {k, j},
             NumberedAs(x, s, i)
      PROVE  /\ ~Widened(y, "R", 8, o) /\ ~Widened(y, "E", 4, o)
             /\ ~TwoLetters(y, WordNames, 2, o) /\ ~TwoLetters(y, ByteNames, 1, o)
  <2>1. x.name[1] = "R" /\ x.name[2] \in Range(DigitChars)
    BY <1>3, <1>7, Zenon DEF NumberedAs
  <2>2. w(o)[1] \notin Range(DigitChars) /\ w(o)[2] \notin Range(DigitChars)
        /\ b(o)[2] \notin Range(DigitChars)
    BY <1>3, <1>4, LettersAreNoDigits
  <2> QED  BY <1>7, <2>1, <2>2, Zenon DEF Widened, TwoLetters
<1>8. CASE /\ \/ Widened(q, "R", 8, k) \/ Widened(q, "E", 4, k)
              \/ TwoLetters(q, WordNames, 2, k) \/ TwoLetters(q, ByteNames, 1, k)
           /\ \/ Widened(r, "R", 8, j) \/ Widened(r, "E", 4, j)
              \/ TwoLetters(r, WordNames, 2, j) \/ TwoLetters(r, ByteNames, 1, j)
  <2> HIDE DEF w, b
  <2>1. CASE Widened(q, "R", 8, k) \/ Widened(q, "E", 4, k)
    <3>1. Len(q.name) = 3  BY <2>1 DEF Widened
    <3>2. Widened(r, "R", 8, j) \/ Widened(r, "E", 4, j)
      BY <1>8, <3>1, SMT DEF TwoLetters
    <3>3. k = j
      BY <1>3, <2>1, <3>2, Zenon DEF Widened, w
    <3> QED  BY <2>1, <3>2, <3>3 DEF Widened
  <2>2. CASE TwoLetters(q, WordNames, 2, k)
    <3>1. Len(q.name) = 2 /\ q.name[2] = w(k)[2]  BY <2>2 DEF TwoLetters, w
    <3>2. q.name[2] # b(j)[2]  BY <1>3, <3>1, SMT
    <3>3. TwoLetters(r, WordNames, 2, j)
      BY <1>8, <3>1, <3>2, SMT DEF TwoLetters, Widened, b
    <3>4. k = j  BY <1>3, <2>2, <3>3, Zenon DEF TwoLetters, w
    <3> QED  BY <2>2, <3>3, <3>4 DEF TwoLetters
  <2>3. CASE TwoLetters(q, ByteNames, 1, k)
    <3>1. Len(q.name) = 2 /\ q.name[2] = b(k)[2]  BY <2>3 DEF TwoLetters, b
    <3>2. q.name[2] # w(j)[2]  BY <1>3, <3>1, SMT
    <3>3. TwoLetters(r, ByteNames, 1, j)
      BY <1>8, <3>1, <3>2, SMT DEF TwoLetters, Widened, w
    <3>4. k = j  BY <1>3, <2>3, <3>3, Zenon DEF TwoLetters, b
    <3> QED  BY <2>3, <3>3, <3>4 DEF TwoLetters
  <2> QED  BY <1>8, <2>1, <2>2, <2>3, Zenon
<1> QED  BY <1>1, <1>2, <1>6, <1>7, <1>8, Zenon DEF NamedAs

-----------------------------------------------------------------------------
(* Where the branches of process_operand part.                             *)
LEMMA PrefixIs ==
  ASSUME NEW S, NEW p \in Seq(S), NEW s \in Seq(S)
  PROVE  IsPrefix(p, s) <=> Len(p) <= Len(s) /\ \A i \in 1 .. Len(p) : s[i] = p[i]
<1>1. Len(p) \in Nat /\ Len(s) \in Nat  OBVIOUS
<1>2. ASSUME Len(p) <= Len(s)
      PROVE  SubSeq(p, 1, Len(p)) = SubSeq(s, 1, Len(p))
               <=> \A i \in 1 .. Len(p) : s[i] = p[i]
  <2> DEFINE n == Len(p)
             a == SubSeq(p, 1, n)
             b == SubSeq(s, 1, n)
  <2>1. n \in Nat /\ n \in Int /\ 1 \in Int /\ n - 1 + 1 = n  BY <1>1, SMT
  <2>2. \A i \in 1 .. n : i \in 1 .. Len(s) /\ 1 + i - 1 = i  BY <1>1, <1>2, SMT
  <2>3. (\A i \in 1 .. n : p[i] \in S) /\ (\A i \in 1 .. n : s[i] \in S)
    BY <2>2, ElementOfSeq
  <2>4. a \in Seq(S) /\ \A i \in 1 .. n - 1 + 1 : a[i] = p[1 + i - 1]
    <3> HIDE DEF n
    <3> QED  BY <2>1, <2>3, SubSeqProperties
  <2>5. b \in Seq(S) /\ \A i \in 1 .. n - 1 + 1 : b[i] = s[1 + i - 1]
    <3> HIDE DEF n
    <3> QED  BY <2>1, <2>3, SubSeqProperties
  <2>6. Len(a) = n /\ Len(b) = n
    <3>1. /\ Len(a) = IF 1 <= n THEN n - 1 + 1 ELSE 0
          /\ Len(b) = IF 1 <= n THEN n - 1 + 1 ELSE 0
      <4> HIDE DEF n
      <4> QED  BY <2>1, <2>3, SubSeqProperties
    <3> HIDE DEF n, a, b
    <3> QED  BY <2>1, <3>1, SMT
  <2>7. (\A i \in 1 .. n : a[i] = p[i]) /\ (\A i \in 1 .. n : b[i] = s[i])
    <3> HIDE DEF n, a, b
    <3> QED  BY <2>1, <2>2, <2>4, <2>5
  <2>8. a = b => \A i \in 1 .. n : s[i] = p[i]
    <3> HIDE DEF n, a, b
    <3> QED  BY <2>7
  <2>9. (\A i \in 1 .. n : s[i] = p[i]) => a = b
    <3> HIDE DEF n, a, b
    <3>1. SUFFICES ASSUME \A i \in 1 .. n : s[i] = p[i] PROVE a = b  OBVIOUS
    <3>2. Len(a) = Len(b) /\ \A i \in 1 .. Len(a) : a[i] = b[i]  BY <2>6, <2>7, <3>1
    <3> QED  BY <2>4, <2>5, <3>2, SeqEqual
  <2> QED  BY <2>8, <2>9
<1> QED  BY <1>2, Zenon DEF IsPrefix

(* The characters that no name of a register has.                          *)
NoName == Range(PunctuationChars)

LEMMA CharactersAre ==
  /\ NoName = {" ", "DOUBLE_QUOTE", "$", "'", "+", ",", "-", ".", ":", ";",
               "[", "BACKSLASH", "]", "_"}
  /\ Range(DigitChars) = {"0", "1", "2", "3", "4", "5", "6", "7", "8", "9"}
  /\ Range(UpperChars) = {"A", "B", "C", "D", "E", "F", "G", "H", "I", "J", "K", "L", "M",
                          "N", "O", "P", "Q", "R", "S", "T", "U", "V", "W", "X", "Y", "Z"}
  /\ Range(LowerChars) = {"a", "b", "c", "d", "e", "f", "g", "h", "i", "j", "k", "l", "m",
                          "n", "o", "p", "q", "r", "s", "t", "u", "v", "w", "x", "y", "z"}
<1>1. NoName = {" ", "DOUBLE_QUOTE", "$", "'", "+", ",", "-", ".", ":", ";",
                "[", "BACKSLASH", "]", "_"}
  <2> DEFINE p == PunctuationChars
  <2>1. DOMAIN p = 1 .. 14  BY Domains
  <2>2. /\ p[1] = " " /\ 1 \in 1 .. 14
        /\ p[2] = "DOUBLE_QUOTE" /\ 2 \in 1 .. 14
        /\ p[3] = "$" /\ 3 \in 1 .. 14
        /\ p[4] = "'" /\ 4 \in 1 .. 14
        /\ p[5] = "+" /\ 5 \in 1 .. 14
        /\ p[6] = "," /\ 6 \in 1 .. 14
        /\ p[7] = "-" /\ 7 \in 1 .. 14
        /\ p[8] = "." /\ 8 \in 1 .. 14
        /\ p[9] = ":" /\ 9 \in 1 .. 14
        /\ p[10] = ";" /\ 10 \in 1 .. 14
        /\ p[11] = "[" /\ 11 \in 1 .. 14
        /\ p[12] = "BACKSLASH" /\ 12 \in 1 .. 14
        /\ p[13] = "]" /\ 13 \in 1 .. 14
        /\ p[14] = "_" /\ 14 \in 1 .. 14
    BY SMT DEF PunctuationChars
  <2>3. \A k \in 1 .. 14 :
          \/ k = 1 \/ k = 2 \/ k = 3 \/ k = 4 \/ k = 5 \/ k = 6 \/ k = 7
          \/ k = 8 \/ k = 9 \/ k = 10 \/ k = 11 \/ k = 12 \/ k = 13 \/ k = 14
    BY SMT
  <2> HIDE DEF p
  <2>4. NoName = {p[k] : k \in 1 .. 14}  BY <2>1 DEF NoName, Range, p
  <2> DEFINE S == {" ", "DOUBLE_QUOTE", "$", "'", "+", ",", "-", ".", ":", ";",
                   "[", "BACKSLASH", "]", "_"}
  <2>5. /\ p[1] \in S /\ p[2] \in S /\ p[3] \in S /\ p[4] \in S /\ p[5] \in S
        /\ p[6] \in S /\ p[7] \in S /\ p[8] \in S /\ p[9] \in S /\ p[10] \in S
        /\ p[11] \in S /\ p[12] \in S /\ p[13] \in S /\ p[14] \in S
    BY <2>2
  <2>6. S \subseteq NoName  BY <2>2, <2>4
  <2>7. NoName = S
    <3> HIDE DEF S
    <3>1. \A k \in 1 .. 14 : p[k] \in S  BY <2>3, <2>5, Zenon
    <3> QED  BY <2>4, <2>6, <3>1
  <2> QED  BY <2>7
<1>2. Range(DigitChars) = {"0", "1", "2", "3", "4", "5", "6", "7", "8", "9"}
  BY DEF Range, DigitChars
<1>3. Range(UpperChars) = {"A", "B", "C", "D", "E", "F", "G", "H", "I", "J", "K", "L", "M",
                          "N", "O", "P", "Q", "R", "S", "T", "U", "V", "W", "X", "Y", "Z"}
  BY DEF Range, UpperChars
<1>4. Range(LowerChars) = {"a", "b", "c", "d", "e", "f", "g", "h", "i", "j", "k", "l", "m",
                          "n", "o", "p", "q", "r", "s", "t", "u", "v", "w", "x", "y", "z"}
  BY DEF Range, LowerChars
<1> QED  BY <1>1, <1>2, <1>3, <1>4

LEMMA Characters ==
  /\ Range(UpperChars) \subseteq DOMAIN Codes /\ Range(LowerChars) \subseteq DOMAIN Codes
  /\ Range(DigitChars) \subseteq DOMAIN Codes /\ Range(PunctuationChars) \subseteq DOMAIN Codes
  /\ {"$", "'", "DOUBLE_QUOTE", "[", "]", "+", "-"} \subseteq NoName
  /\ {"0", "1"} \subseteq Range(DigitChars)
  /\ {"x", "b", "r", "e", "l"} \subseteq Range(LowerChars)
<1>1. {"$", "'", "DOUBLE_QUOTE", "[", "]", "+", "-"} \subseteq NoName
  BY CharactersAre
<1>2. {"0", "1"} \subseteq Range(DigitChars)  BY DEF Range, DigitChars
<1>3. {"x", "b", "r", "e", "l"} \subseteq Range(LowerChars)  BY DEF Range, LowerChars
<1>4. /\ Range(UpperChars) \subseteq DOMAIN Codes /\ Range(LowerChars) \subseteq DOMAIN Codes
      /\ Range(DigitChars) \subseteq DOMAIN Codes /\ Range(PunctuationChars) \subseteq DOMAIN Codes
  BY DEF Codes
<1> QED  BY <1>1, <1>2, <1>3, <1>4

LEMMA NoNameIsNone ==
  \A c \in NoName : /\ c \notin Range(UpperChars) /\ c \notin Range(LowerChars)
                    /\ c \notin Range(DigitChars)
  BY CharactersAre

LEMMA DigitIsNoLetter ==
  \A c \in Range(DigitChars) : c \notin Range(UpperChars) /\ c \notin Range(LowerChars)
  BY DEF Range, UpperChars, LowerChars, DigitChars

LEMMA UpperOf ==
  ASSUME NEW str \in Text
  PROVE  /\ Len(Upper(str)) = Len(str)
         /\ \A i \in 1 .. Len(str) :
              str[i] \in Range(LowerChars) \/ Upper(str)[i] = str[i]
<1>1. DOMAIN str = 1 .. Len(str) /\ Len(str) \in Nat  BY DEF Text
<1>2. DOMAIN ToUpper = Range(LowerChars)  BY DEF ToUpper
<1>3. Upper(str) \in Text  BY UpperIsText
<1>4. Len(Upper(str)) \in Nat /\ DOMAIN Upper(str) = 1 .. Len(Upper(str))
  BY <1>3 DEF Text
<1>5. DOMAIN Upper(str) = 1 .. Len(str)  BY <1>1 DEF Upper
<1>6. \A m, n \in Nat : 1 .. m = 1 .. n => m = n
  <2>1. SUFFICES ASSUME NEW m \in Nat, NEW n \in Nat, 1 .. m = 1 .. n PROVE m = n  OBVIOUS
  <2>2. m = 0 \/ m \in 1 .. m  BY SMT
  <2>3. n = 0 \/ n \in 1 .. n  BY SMT
  <2> QED  BY <2>1, <2>2, <2>3, SMT
<1>7. \A i \in 1 .. Len(str) : str[i] \in Range(LowerChars) \/ Upper(str)[i] = str[i]
  BY <1>1, <1>2 DEF Upper
<1> QED  BY <1>1, <1>4, <1>5, <1>6, <1>7

(* A text that names a register has no punctuation, and begins with a      *)
(* letter.                                                                 *)
LEMMA NameOfRegister ==
  ASSUME NEW str \in Text, NEW r \in Registers, Upper(str) = r.name
  PROVE  /\ Len(str) \in Nat /\ Len(str) >= 2
         /\ \A i \in 1 .. Len(str) : str[i] \notin NoName
         /\ str[1] \notin Range(DigitChars)
<1>1. PICK k \in 1 .. 8 : NamedAs(r, k)  BY RegisterIsNamed
<1>2. r.name \in Seq(NameChars)  BY RegisterIsNamed
<1>3. Len(str) = Len(r.name) /\ \A i \in 1 .. Len(str) :
                                  str[i] \in Range(LowerChars) \/ r.name[i] = str[i]
  BY UpperOf
<1>4. Len(str) \in Nat  BY DEF Text
<1>5. Len(r.name) >= 2 /\ r.name[1] \in Range(UpperChars)
  <2>1. "R" \in Range(UpperChars) /\ "E" \in Range(UpperChars)  BY DEF Range, UpperChars
  <2>2. WordNames[k][1] \in Range(UpperChars) /\ ByteNames[k][1] \in Range(UpperChars)
    BY WordLetters, ByteLetters, Zenon
  <2>3. CASE \E s \in SizeSuffixes : NumberedAs(r, s, k)
    <3>1. PICK s \in SizeSuffixes : NumberedAs(r, s, k)  BY <2>3
    <3>2. Len(s[1]) \in Nat  BY SuffixLetters
    <3>3. Len(NumberNames[k]) = 1 \/ Len(NumberNames[k]) = 2  BY NumberDigits, Zenon
    <3>4. \A x, y : (x = 1 \/ x = 2) /\ y \in Nat => 1 + x + y >= 2  BY SMT
    <3> QED  BY <2>1, <3>1, <3>2, <3>3, <3>4, Zenon DEF NumberedAs
  <2>4. CASE ~\E s \in SizeSuffixes : NumberedAs(r, s, k)
    <3>1. 3 >= 2 /\ 2 >= 2  BY SMT
    <3> QED  BY <1>1, <2>1, <2>2, <2>4, <3>1, Zenon DEF NamedAs, Widened, TwoLetters
  <2> QED  BY <2>3, <2>4
<1>6. \A i \in 1 .. Len(str) : str[i] \notin NoName
  <2>1. \A i \in 1 .. Len(str) : r.name[i] \in NameChars  BY <1>2, <1>3, ElementOfSeq
  <2> QED  BY <1>3, <2>1, NoNameIsNone DEF NameChars
<1>7. 1 \in 1 .. Len(str)  BY <1>3, <1>4, <1>5, SMT
<1>8. str[1] \notin Range(DigitChars)
  BY <1>3, <1>5, <1>7, DigitIsNoLetter
<1> QED  BY <1>3, <1>4, <1>5, <1>6, <1>8

LEMMA NoNumberIsFound ==
  ASSUME NEW str \in Text, Len(str) >= 1, str[1] \notin Range(DigitChars), str[1] # "-"
  PROVE  ~process_number(str, TRUE).found
<1>1. 1 \in 1 .. Len(str) /\ DOMAIN str = 1 .. Len(str)
  <2>1. Len(str) \in Nat /\ DOMAIN str = 1 .. Len(str)  BY DEF Text
  <2> QED  BY <2>1, SMT
<1>2. str[1] # "0"  BY Characters
<1>3. str \in Seq(DOMAIN Codes)  BY DEF Text
<1>4. ~IsPrefix(<< "0", "x" >>, str) /\ ~IsPrefix(<< "0", "b" >>, str) /\ ~IsPrefix(<< "-" >>, str)
  <2>1. {"0", "x", "b", "-"} \subseteq DOMAIN Codes  BY Characters DEF NoName
  <2>2. ASSUME NEW p \in Seq(DOMAIN Codes), 1 \in 1 .. Len(p), p[1] = "0" \/ p[1] = "-"
        PROVE  ~IsPrefix(p, str)
    <3>1. IsPrefix(p, str) => str[1] = p[1]  BY <1>3, <2>2, PrefixIs, Zenon
    <3> QED  BY <1>2, <2>2, <3>1
  <2>3. << "0", "x" >> \in Seq(DOMAIN Codes) /\ 1 \in 1 .. Len(<< "0", "x" >>) /\ << "0", "x" >>[1] = "0"
    <3> DEFINE C == DOMAIN Codes
    <3> HIDE DEF C
    <3>1. "0" \in C /\ "x" \in C  BY <2>1 DEF C
    <3> QED BY <3>1 DEF C
  <2>4. << "0", "b" >> \in Seq(DOMAIN Codes) /\ 1 \in 1 .. Len(<< "0", "b" >>) /\ << "0", "b" >>[1] = "0"
    <3> DEFINE C == DOMAIN Codes
    <3> HIDE DEF C
    <3>1. "0" \in C /\ "b" \in C  BY <2>1 DEF C
    <3> QED BY <3>1 DEF C
  <2>5. << "-" >> \in Seq(DOMAIN Codes) /\ 1 \in 1 .. Len(<< "-" >>) /\ << "-" >>[1] = "-"
    <3> DEFINE C == DOMAIN Codes
    <3> HIDE DEF C
    <3>1. "-" \in C  BY <2>1 DEF C
    <3> QED BY <3>1 DEF C
  <2> QED  BY <2>2, <2>3, <2>4, <2>5
<1>5. ~is_digits(str)
  <2>1. str[1] \in Range(str)  BY <1>1 DEF Range
  <2> QED  BY <1>4, <2>1, Zenon DEF is_digits
<1>6. process_number(str, TRUE) = NoNumber(~TRUE)
  BY <1>4, <1>5, Zenon DEF process_number
<1>7. NoNumber(~TRUE).found = FALSE  BY DEF NoNumber
<1> QED  BY <1>6, <1>7

LEMMA RegisterIsRead ==
  ASSUME NEW str, NEW r \in Registers, Upper(str) = r.name, NEW indirect, NEW displacement
  PROVE  RegisterOperandOf(str, indirect, displacement)
           = Op("REGISTER", indirect, displacement, [code |-> r.code, size |-> r.size])
<1>1. IsRegister(Upper(str))  BY Zenon DEF IsRegister
<1> DEFINE q == CHOOSE q \in Registers : q.name = Upper(str)
<1>2. q \in Registers /\ q.name = Upper(str)  BY <1>1, Zenon DEF IsRegister
<1>3. get_register(Upper(str)) = [code |-> q.code, size |-> q.size]
  BY Zenon DEF get_register
<1> HIDE DEF q
<1>4. q.code = r.code /\ q.size = r.size  BY <1>2, NameIsUnique, Zenon
<1> QED  BY <1>1, <1>3, <1>4, Zenon DEF RegisterOperandOf

(* What begins with another character.                                     *)
LEMMA BeginsOtherwise ==
  ASSUME NEW str \in Text, NEW c \in DOMAIN Codes, Len(str) >= 1 => str[1] # c
  PROVE  ~IsPrefix(<< c >>, str)
<1> DEFINE C == DOMAIN Codes
           p == << c >>
<1>1. str \in Seq(C)  BY DEF Text
<1> HIDE DEF C
<1>2. c \in C  BY DEF C
<1>3. p \in Seq(C) /\ Len(p) = 1 /\ p[1] = c /\ 1 \in 1 .. 1  BY <1>2, SMT
<1> HIDE DEF p
<1>4. IsPrefix(p, str) => Len(str) >= 1 /\ str[1] = c
  <2>0. IsPrefix(p, str) <=> Len(p) <= Len(str) /\ \A i \in 1 .. Len(p) : str[i] = p[i]
    BY <1>1, <1>3, PrefixIs
  <2>1. IsPrefix(p, str) => 1 <= Len(str) /\ str[1] = p[1]
    BY <1>3, <2>0, Zenon
  <2>2. Len(str) \in Nat  BY <1>1
  <2> QED  BY <1>3, <2>1, <2>2, SMT
<1> QED  BY <1>4 DEF p

LEMMA BeginsSo ==
  ASSUME NEW str \in Text, Len(str) >= 1
  PROVE  IsPrefix(<< str[1] >>, str)
<1> DEFINE C == DOMAIN Codes
           p == << str[1] >>
<1>1. str \in Seq(C)  BY DEF Text
<1> HIDE DEF C
<1>2. Len(str) \in Nat  BY <1>1
<1>3. 1 \in 1 .. Len(str)  BY <1>2, SMT
<1>4. str[1] \in C  BY <1>1, <1>3, ElementOfSeq
<1>5. p \in Seq(C) /\ Len(p) = 1 /\ p[1] = str[1]  BY <1>4, SMT
<1>6. \A i \in 1 .. 1 : i = 1  BY SMT
<1>7. Len(p) <= Len(str)  BY <1>2, <1>5, SMT
<1> HIDE DEF p
<1>8. IsPrefix(p, str)  BY <1>1, <1>5, <1>6, <1>7, PrefixIs, Zenon
<1> QED  BY <1>8 DEF p

(* process_operand takes the name of a register, in upper or lower case,   *)
(* for that register: no other has the same name, and neither              *)
(* process_number nor an earlier branch takes it for something else.       *)
THEOREM RegistersAreRead ==
  ASSUME NEW str \in Text, NEW r \in Registers, Upper(str) = r.name, NEW unwritten
  PROVE  process_operand(str, unwritten)
           = Op("REGISTER", FALSE, 0, [code |-> r.code, size |-> r.size])
<1>1. /\ Len(str) \in Nat /\ Len(str) >= 2
      /\ \A i \in 1 .. Len(str) : str[i] \notin NoName
      /\ str[1] \notin Range(DigitChars)
  BY NameOfRegister
<1>2. Len(str) >= 1 /\ 1 \in 1 .. Len(str)  BY <1>1, SMT
<1>3. /\ "$" \in NoName /\ "'" \in NoName /\ "DOUBLE_QUOTE" \in NoName
      /\ "[" \in NoName /\ "-" \in NoName
      /\ NoName \subseteq DOMAIN Codes
  BY Characters DEF NoName
<1>4. str[1] \notin NoName  BY <1>1, <1>2
<1>5. /\ ~IsPrefix(<< "$" >>, str) /\ ~IsPrefix(<< "'" >>, str)
      /\ ~IsPrefix(<< "DOUBLE_QUOTE" >>, str) /\ ~IsPrefix(<< "[" >>, str)
  <2>1. ASSUME NEW c \in NoName PROVE ~IsPrefix(<< c >>, str)
    <3>1. str[1] # c /\ c \in DOMAIN Codes  BY <1>3, <1>4
    <3> QED  BY <3>1, BeginsOtherwise
  <2> QED  BY <1>3, <2>1
<1>6. ~process_number(str, TRUE).found
  <2>1. str[1] # "-"  BY <1>3, <1>4
  <2> QED  BY <1>1, <1>2, <2>1, NoNumberIsFound
<1>7. process_operand(str, unwritten) = RegisterOperandOf(str, FALSE, 0)
  BY <1>5, <1>6, Zenon DEF process_operand, InBrackets
<1> QED  BY <1>7, RegisterIsRead

-----------------------------------------------------------------------------
(* The number n in one of its three notations, with as many digits as the  *)
(* code takes.                                                             *)
Stands(number, n) ==
  \/ /\ Range(number) \subseteq Range(DigitChars) /\ Len(number) <= 20
     /\ n = Meaning(number, 10)
  \/ /\ IsPrefix(<< "0", "x" >>, number)
     /\ Range(Upper(Behind(number, 2))) \subseteq HexDigits
     /\ Len(Upper(Behind(number, 2))) <= 16
     /\ n = Meaning(Upper(Behind(number, 2)), 16)
  \/ /\ IsPrefix(<< "0", "b" >>, number)
     /\ Range(Upper(Behind(number, 2))) \subseteq BinaryDigits
     /\ Len(Upper(Behind(number, 2))) <= 64
     /\ n = Meaning(Upper(Behind(number, 2)), 2)

LEMMA TwoCharacters ==
  ASSUME NEW str \in Text, NEW a \in DOMAIN Codes, NEW b \in DOMAIN Codes,
         IsPrefix(<< a, b >>, str)
  PROVE  Len(str) >= 2 /\ str[1] = a /\ str[2] = b
<1> DEFINE C == DOMAIN Codes
           p == << a, b >>
<1>1. str \in Seq(C)  BY DEF Text
<1> HIDE DEF C
<1>2. a \in C /\ b \in C  BY DEF C
<1>3. p \in Seq(C) /\ Len(p) = 2 /\ p[1] = a /\ p[2] = b  BY <1>2, SMT
<1>4. 1 \in 1 .. 2 /\ 2 \in 1 .. 2  BY SMT
<1>5. IsPrefix(p, str)  OBVIOUS
<1> HIDE DEF p
<1>6. 2 <= Len(str) /\ str[1] = a /\ str[2] = b
  <2>1. IsPrefix(p, str) <=> Len(p) <= Len(str) /\ \A i \in 1 .. Len(p) : str[i] = p[i]
    BY <1>1, <1>3, PrefixIs
  <2> QED  BY <1>3, <1>4, <1>5, <2>1, Zenon
<1>7. Len(str) \in Nat  BY <1>1
<1> QED  BY <1>6, <1>7, SMT

LEMMA NumberIsRead ==
  ASSUME NEW number \in Text, NEW n, Stands(number, n), NEW can_be_register
  PROVE  \E value \in Immediate :
           /\ process_number(number, can_be_register) = Number(value)
           /\ NumberIn(value) = n % WordSize
<1> DEFINE p == process_number(number, can_be_register)
           digits == Upper(Behind(number, 2))
<1>1. digits \in Text  BY BehindIsText, UpperIsText
<1>2. {"0", "x", "b", "-"} \subseteq DOMAIN Codes  BY Characters DEF NoName
<1>3. DOMAIN number = 1 .. Len(number) /\ Len(number) \in Nat  BY DEF Text
<1>4. ASSUME NEW d \in Text, NEW base \in Nat, NEW allowed, NEW longest,
             Range(d) \subseteq allowed, Len(d) <= longest, n = Meaning(d, base),
             p = Numeral(d, allowed, longest, base)
      PROVE  \E value \in Immediate : p = Number(value) /\ NumberIn(value) = n % WordSize
  <2> HIDE DEF p
  <2>1. p = Number(ToNumber(d, base))  BY <1>4, Zenon DEF Numeral
  <2>2. ToNumber(d, base) \in Immediate  BY ToNumberIsImmediate
  <2>3. NumberIn(ToNumber(d, base)) = n % WordSize  BY <1>4, NumbersAreRead
  <2> QED  BY <2>1, <2>2, <2>3
<1>5. CASE /\ Range(number) \subseteq Range(DigitChars) /\ Len(number) <= 20
           /\ n = Meaning(number, 10)
  <2>1. \A k \in 1 .. Len(number) : number[k] \in Range(DigitChars)
    BY <1>3, <1>5 DEF Range
  <2>2. ASSUME NEW c \in {"x", "b"} PROVE ~IsPrefix(<< "0", c >>, number)
    <3>1. SUFFICES ASSUME IsPrefix(<< "0", c >>, number) PROVE FALSE  OBVIOUS
    <3>2. c \in DOMAIN Codes /\ "0" \in DOMAIN Codes  BY <1>2
    <3>3. Len(number) >= 2 /\ number[2] = c  BY <3>1, <3>2, TwoCharacters
    <3>4. 2 \in 1 .. Len(number)  BY <1>3, <3>3, SMT
    <3> QED  BY <2>1, <3>3, <3>4, CharactersAre
  <2>3. ~IsPrefix(<< "-" >>, number)
    <3>1. Len(number) >= 1 => 1 \in 1 .. Len(number)  BY <1>3, SMT
    <3>2. Len(number) >= 1 => number[1] # "-"  BY <2>1, <3>1, CharactersAre
    <3> QED  BY <1>2, <3>2, BeginsOtherwise
  <2>4. is_digits(number)  BY <1>5, <2>3, Zenon DEF is_digits
  <2>5. p = Numeral(number, DOMAIN Codes, 20, 10)
    <3>1. ~IsPrefix(<< "0", "x" >>, number) /\ ~IsPrefix(<< "0", "b" >>, number)  BY <2>2
    <3> QED  BY <2>4, <3>1, Zenon DEF process_number
  <2>6. Range(number) \subseteq DOMAIN Codes  BY <1>5, Characters
  <2>7. 10 \in Nat  OBVIOUS
  <2> QED  BY <1>4, <1>5, <2>5, <2>6, <2>7
<1>6. CASE /\ IsPrefix(<< "0", "x" >>, number)
           /\ Range(digits) \subseteq HexDigits
           /\ Len(digits) <= 16
           /\ n = Meaning(digits, 16)
  <2>3. ~IsPrefix(<< "0", "b" >>, number)
    <3>1. number[2] = "x"  BY <1>2, <1>6, TwoCharacters
    <3>2. IsPrefix(<< "0", "b" >>, number) => number[2] = "b"  BY <1>2, TwoCharacters
    <3> QED  BY <3>1, <3>2
  <2>1. p = Numeral(digits, HexDigits, 16, 16)
    BY <1>6, <2>3, Zenon DEF process_number
  <2>2. 16 \in Nat  OBVIOUS
  <2> QED  BY <1>1, <1>4, <1>6, <2>1, <2>2
<1>7. CASE /\ IsPrefix(<< "0", "b" >>, number)
           /\ Range(digits) \subseteq BinaryDigits
           /\ Len(digits) <= 64
           /\ n = Meaning(digits, 2)
  <2>1. ~IsPrefix(<< "0", "x" >>, number)
    <3>1. number[2] = "b"  BY <1>2, <1>7, TwoCharacters
    <3>2. IsPrefix(<< "0", "x" >>, number) => number[2] = "x"  BY <1>2, TwoCharacters
    <3> QED  BY <3>1, <3>2
  <2>2. p = Numeral(digits, BinaryDigits, 64, 2)
    BY <1>7, <2>1, Zenon DEF process_number
  <2>3. 2 \in Nat  OBVIOUS
  <2> QED  BY <1>1, <1>4, <1>7, <2>2, <2>3
<1> QED  BY <1>5, <1>6, <1>7, Zenon DEF Stands

(* process_operand takes a number, in any of its notations, for that       *)
(* number modulo 2^64.                                                     *)
THEOREM ImmediatesAreRead ==
  ASSUME NEW number \in Text, NEW n, Stands(number, n), NEW unwritten
  PROVE  \E value \in Immediate :
           /\ process_operand(number, unwritten) = Op("IMMEDIATE", unwritten, 0, value)
           /\ NumberIn(value) = n % WordSize
<1>1. PICK value \in Immediate :
        process_number(number, TRUE) = Number(value) /\ NumberIn(value) = n % WordSize
  BY NumberIsRead
<1>2. DOMAIN number = 1 .. Len(number) /\ Len(number) \in Nat  BY DEF Text
<1>3. Len(number) >= 1 => number[1] \in Range(DigitChars)
  <2>1. Len(number) >= 1 => 1 \in DOMAIN number  BY <1>2, SMT
  <2>2. CASE Range(number) \subseteq Range(DigitChars)
    BY <2>1, <2>2 DEF Range
  <2>3. CASE IsPrefix(<< "0", "x" >>, number) \/ IsPrefix(<< "0", "b" >>, number)
    <3>1. {"0", "x", "b"} \subseteq DOMAIN Codes  BY Characters
    <3>2. number[1] = "0"  BY <2>3, <3>1, TwoCharacters
    <3> QED  BY <3>2, Characters
  <2> QED  BY <2>2, <2>3, Zenon DEF Stands
<1>4. ASSUME NEW c \in NoName PROVE ~IsPrefix(<< c >>, number)
  <2>1. c \in DOMAIN Codes  BY Characters DEF NoName
  <2>2. Len(number) >= 1 => number[1] # c  BY <1>3, NoNameIsNone
  <2> QED  BY <2>1, <2>2, BeginsOtherwise
<1>5. ~IsPrefix(<< "$" >>, number) /\ ~IsPrefix(<< "'" >>, number)
      /\ ~IsPrefix(<< "DOUBLE_QUOTE" >>, number) /\ ~IsPrefix(<< "[" >>, number)
  BY <1>4, Characters
<1>6. Number(value).found /\ Number(value).value = value  BY DEF Number
<1>7. process_operand(number, unwritten) = Op("IMMEDIATE", unwritten, 0, value)
  BY <1>1, <1>5, <1>6, Zenon DEF process_operand, InBrackets
<1> QED  BY <1>1, <1>7

-----------------------------------------------------------------------------
Bracketed(text) == << "[" >> \o text \o << "]" >>

LEMMA BracketedIsAddress ==
  ASSUME NEW text \in Text, NEW unwritten
  PROVE  process_operand(Bracketed(text), unwritten) = AddressOf(text)
<1> DEFINE C == DOMAIN Codes
           a == << "[" >>
           z == << "]" >>
           m == a \o text
           o == m \o z
           l == Len(text)
<1>1. text \in Seq(C)  BY DEF Text
<1>2. {"[", "]", "$", "'", "DOUBLE_QUOTE", "-"} \subseteq C  BY Characters DEF NoName
<1> HIDE DEF C
<1>3. a \in Seq(C) /\ Len(a) = 1 /\ a[1] = "["  BY <1>2, SMT
<1>4. z \in Seq(C) /\ Len(z) = 1 /\ z[1] = "]"  BY <1>2, SMT
<1>5. l \in Nat  BY <1>1
<1> HIDE DEF a, z, l
<1>6. /\ m \in Seq(C) /\ Len(m) = 1 + l
      /\ \A i \in 1 .. 1 + l : m[i] = IF i <= 1 THEN a[i] ELSE text[i - 1]
  <2>1. /\ m \in Seq(C) /\ Len(m) = Len(a) + l
        /\ \A i \in 1 .. Len(a) + l : m[i] = IF i <= Len(a) THEN a[i] ELSE text[i - Len(a)]
    BY <1>1, <1>3, ConcatProperties DEF l
  <2> QED  BY <1>3, <2>1, Zenon
<1> HIDE DEF m
<1>7. /\ o \in Seq(C) /\ Len(o) = Len(m) + 1
      /\ \A i \in 1 .. Len(m) + 1 : o[i] = IF i <= Len(m) THEN m[i] ELSE z[i - Len(m)]
  <2>1. /\ o \in Seq(C) /\ Len(o) = Len(m) + Len(z)
        /\ \A i \in 1 .. Len(m) + Len(z) : o[i] = IF i <= Len(m) THEN m[i] ELSE z[i - Len(m)]
    BY <1>4, <1>6, ConcatProperties
  <2> QED  BY <1>4, <2>1, Zenon
<1> HIDE DEF o
<1>8. Len(o) = l + 2  BY <1>5, <1>6, <1>7, SMT
<1>9. o[1] = "[" /\ o[Len(o)] = "]"
  <2>1. o[1] = m[1] /\ m[1] = a[1]  BY <1>5, <1>6, <1>7, SMT
  <2>2. o[Len(o)] = z[1]  BY <1>5, <1>6, <1>7, SMT
  <2> QED  BY <1>3, <1>4, <2>1, <2>2
<1>10. \A i \in 1 .. l : o[1 + i] = text[i]
  BY <1>5, <1>6, <1>7, SMT
<1>11. SubSeq(o, 2, Len(o) - 1) = text
  <2> DEFINE k == Len(o) - 1
             s == SubSeq(o, 2, k)
  <2>1. k = l + 1 /\ k - 2 + 1 = l /\ 2 \in Int /\ k \in Int  BY <1>5, <1>8, SMT
  <2>2. \A i \in 2 .. k : i \in 1 .. Len(o)  BY <1>5, <1>8, <2>1, SMT
  <2>3. \A i \in 2 .. k : o[i] \in C  BY <1>7, <2>2, ElementOfSeq
  <2> HIDE DEF k
  <2>4. /\ s \in Seq(C) /\ Len(s) = IF 2 <= k THEN k - 2 + 1 ELSE 0
        /\ \A i \in 1 .. k - 2 + 1 : s[i] = o[2 + i - 1]
    BY <2>1, <2>3, SubSeqProperties
  <2> HIDE DEF s
  <2>5. Len(s) = l  BY <1>5, <2>1, <2>4, SMT
  <2>6. \A i \in 1 .. l : s[i] = text[i]
    <3>1. \A i \in 1 .. l : 2 + i - 1 = 1 + i  BY <1>5, SMT
    <3> QED  BY <1>10, <2>1, <2>4, <3>1
  <2>7. s = text  BY <1>1, <2>4, <2>5, <2>6, SeqEqual DEF l
  <2> QED  BY <2>7 DEF s, k
<1>12. o \in Text  BY <1>7 DEF C, Text
<1>13. Len(o) >= 1  BY <1>5, <1>8, SMT
<1>14. /\ ~IsPrefix(<< "$" >>, o) /\ ~IsPrefix(<< "'" >>, o) /\ ~IsPrefix(<< "DOUBLE_QUOTE" >>, o)
  <2>1. ASSUME NEW c \in C, c # "[" PROVE ~IsPrefix(<< c >>, o)
    BY <1>9, <1>12, <2>1, BeginsOtherwise DEF C
  <2> QED  BY <1>2, <2>1
<1>15. ~process_number(o, TRUE).found
  <2>1. "[" \notin Range(DigitChars) /\ "[" # "-"  BY CharactersAre
  <2> QED  BY <1>9, <1>12, <1>13, <2>1, NoNumberIsFound
<1>16. InBrackets(o)
  <2>1. IsPrefix(<< o[1] >>, o)  BY <1>12, <1>13, BeginsSo
  <2> QED  BY <1>9, <2>1, Zenon DEF InBrackets
<1>17. process_operand(o, unwritten) = AddressOf(text)
  BY <1>11, <1>14, <1>15, <1>16, Zenon DEF process_operand
<1> QED  BY <1>17, Zenon DEF Bracketed, o, m, a, z

LEMMA LeastIs ==
  ASSUME NEW T, T \subseteq Nat, NEW x \in T, \A y \in T : x <= y
  PROVE  Min(T) = x
<1>1. Min(T) \in T /\ \A y \in T : Min(T) <= y  BY Zenon DEF Min
<1>2. \A p, q \in Nat : p <= q /\ q <= p => p = q  BY SMT
<1> QED  BY <1>1, <1>2

LEMMA NoPlusInNumber ==
  ASSUME NEW number \in Text, NEW n, Stands(number, n), NEW i \in 1 .. Len(number)
  PROVE  number[i] # "+"
<1> DEFINE behind == Behind(number, 2)
           digits == Upper(behind)
<1>1. DOMAIN number = 1 .. Len(number) /\ Len(number) \in Nat  BY DEF Text
<1>2. {"0", "x", "b"} \subseteq DOMAIN Codes  BY Characters
<1>3. CASE Range(number) \subseteq Range(DigitChars)
  <2>1. number[i] \in Range(DigitChars)  BY <1>1, <1>3 DEF Range
  <2> QED  BY <2>1, CharactersAre
<1>4. CASE /\ IsPrefix(<< "0", "x" >>, number) \/ IsPrefix(<< "0", "b" >>, number)
           /\ Range(digits) \subseteq HexDigits \cup BinaryDigits
  <2>1. Len(number) >= 2 /\ number[1] = "0" /\ number[2] \in {"x", "b"}
    BY <1>2, <1>4, TwoCharacters
  <2>2. CASE i <= 2
    <3>1. i = 1 \/ i = 2  BY <1>1, <2>2, SMT
    <3>2. "+" # "0" /\ "+" # "x" /\ "+" # "b"  OBVIOUS
    <3> QED  BY <2>1, <3>1, <3>2
  <2>3. CASE i > 2
    <3> DEFINE C == DOMAIN Codes
               l == Len(number)
    <3>1. behind \in Text  BY BehindIsText
    <3>2. number \in Seq(C)  BY DEF Text
    <3>3. \A k \in 2 + 1 .. l : k \in 1 .. l  BY <1>1, SMT
    <3>4. \A k \in 2 + 1 .. l : number[k] \in C  BY <3>2, <3>3, ElementOfSeq
    <3> HIDE DEF C
    <3>5. 2 + 1 \in Int /\ l \in Int  BY <1>1, SMT
    <3>6. /\ Len(SubSeq(number, 2 + 1, l)) = IF 2 + 1 <= l THEN l - (2 + 1) + 1 ELSE 0
          /\ \A k \in 1 .. l - (2 + 1) + 1 : SubSeq(number, 2 + 1, l)[k] = number[(2 + 1) + k - 1]
      <4> HIDE DEF l
      <4> QED  BY <3>4, <3>5, SubSeqProperties
    <3>7. /\ Len(behind) = IF 2 + 1 <= l THEN l - (2 + 1) + 1 ELSE 0
          /\ \A k \in 1 .. l - (2 + 1) + 1 : behind[k] = number[(2 + 1) + k - 1]
      BY <3>6 DEF Behind
    <3> HIDE DEF behind
    <3>8. i - 2 \in 1 .. l - (2 + 1) + 1 /\ (2 + 1) + (i - 2) - 1 = i /\ 2 + 1 <= l
          /\ l - (2 + 1) + 1 = l - 2 /\ i - 2 \in 1 .. l - 2
      BY <1>1, <2>3, SMT
    <3>9. behind[i - 2] = number[i] /\ Len(behind) = l - 2 /\ i - 2 \in 1 .. Len(behind)
      BY <3>7, <3>8
    <3>10. Len(digits) = Len(behind) /\ (behind[i - 2] \in Range(LowerChars)
                                           \/ digits[i - 2] = behind[i - 2])
      BY <3>1, <3>9, UpperOf
    <3>11. digits[i - 2] \in HexDigits \cup BinaryDigits
      <4>1. digits \in Text  BY <3>1, UpperIsText
      <4>2. DOMAIN digits = 1 .. Len(digits)  BY <4>1 DEF Text
      <4>3. digits[i - 2] \in Range(digits)  BY <3>9, <3>10, <4>2 DEF Range
      <4> QED  BY <1>4, <4>3
    <3>12. "+" \notin Range(LowerChars) /\ "+" \notin HexDigits \cup BinaryDigits
      BY CharactersAre DEF HexDigits, BinaryDigits
    <3> QED  BY <3>9, <3>10, <3>11, <3>12
  <2> QED  BY <1>1, <2>2, <2>3, SMT
<1> QED  BY <1>3, <1>4, Zenon DEF Stands

LEMMA LargestInt32 ==
  /\ INT32_MAX \in Nat /\ WordSize \in Nat /\ INT32_MAX < WordSize
  /\ INT32_MAX = 255 + 256 * (255 + 256 * (255 + 256 * 127))
<1>1. INT32_MAX \in Nat  BY SMT DEF INT32_MAX
<1>2. WordSize \in Nat  BY SMT DEF WordSize
<1>3. INT32_MAX < WordSize
  <2> DEFINE w4 == 256 * (256 * (256 * 256))
             w5 == 256 * w4  w6 == 256 * w5  w7 == 256 * w6  w8 == 256 * w7
  <2>1. w4 \in Nat /\ INT32_MAX < w4  BY SMT DEF INT32_MAX
  <2>2. \A w, m \in Nat : m < w => 256 * w \in Nat /\ m < 256 * w  BY SMT
  <2> HIDE DEF w4
  <2>3. w5 \in Nat /\ INT32_MAX < w5  BY <1>1, <2>1, <2>2
  <2> HIDE DEF w5
  <2>4. w6 \in Nat /\ INT32_MAX < w6  BY <1>1, <2>2, <2>3
  <2> HIDE DEF w6
  <2>5. w7 \in Nat /\ INT32_MAX < w7  BY <1>1, <2>2, <2>4
  <2> HIDE DEF w7
  <2>6. INT32_MAX < w8  BY <1>1, <2>2, <2>5
  <2> QED  BY <2>6 DEF WordSize, w4, w5, w6, w7
<1>4. INT32_MAX = 255 + 256 * (255 + 256 * (255 + 256 * 127))  BY SMT DEF INT32_MAX
<1> QED  BY <1>1, <1>2, <1>3, <1>4

(* A number that is an int32_t is as small as it is.                       *)
LEMMA SmallNumber ==
  ASSUME NEW v \in Immediate, NEW n \in 0 .. INT32_MAX, NumberIn(v) = n % WordSize
  PROVE  ~TooFar(v) /\ Magnitude(v) = n
<1>1. /\ v[1] \in Byte /\ v[2] \in Byte /\ v[3] \in Byte /\ v[4] \in Byte
      /\ v[5] \in Byte /\ v[6] \in Byte /\ v[7] \in Byte /\ v[8] \in Byte
  BY SMT DEF Immediate
<1>2. n \in Nat /\ n <= INT32_MAX
  <2>1. INT32_MAX \in Nat  BY LargestInt32
  <2>2. \A m \in Nat : \A k \in 0 .. m : k \in Nat /\ k <= m  BY SMT
  <2> QED  BY <2>1, <2>2
<1>3. n % WordSize = n
  <2>1. INT32_MAX \in Nat /\ WordSize \in Nat /\ INT32_MAX < WordSize
    BY LargestInt32
  <2>2. \A w, m, k \in Nat : k <= m /\ m < w => k % w = k  BY SMT
  <2> QED  BY <1>2, <2>1, <2>2
<1> DEFINE m8 == v[8]
           m7 == v[7] + 256 * m8  m6 == v[6] + 256 * m7  m5 == v[5] + 256 * m6
           m4 == v[4] + 256 * m5  m3 == v[3] + 256 * m4  m2 == v[2] + 256 * m3
           m1 == v[1] + 256 * m2
<1>4. m1 = n  BY <1>3 DEF NumberIn
<1>5. ASSUME NEW b \in Byte, NEW x \in Nat
      PROVE  /\ b + 256 * x \in Nat
             /\ \A k \in Nat : b + 256 * x <= 255 + 256 * k => x <= k
             /\ b + 256 * x = 0 => b = 0 /\ x = 0
             /\ b + 256 * x < 128 => b < 128 /\ x = 0
  BY SMT DEF Byte
<1>6. v[5] = 0 /\ v[6] = 0 /\ v[7] = 0 /\ v[8] = 0 /\ v[4] < 128
  <2>1. m8 \in Nat  BY <1>1, SMT DEF Byte
  <2> HIDE DEF m8
  <2>2. m7 \in Nat /\ (m7 = 0 => v[7] = 0 /\ m8 = 0)  BY <1>1, <1>5, <2>1
  <2> HIDE DEF m7
  <2>3. m6 \in Nat /\ (m6 = 0 => v[6] = 0 /\ m7 = 0)  BY <1>1, <1>5, <2>2
  <2> HIDE DEF m6
  <2>4. m5 \in Nat /\ (m5 = 0 => v[5] = 0 /\ m6 = 0)  BY <1>1, <1>5, <2>3
  <2> HIDE DEF m5
  <2>5. m4 \in Nat /\ (m4 < 128 => v[4] < 128 /\ m5 = 0)  BY <1>1, <1>5, <2>4
  <2> HIDE DEF m4
  <2>6. m3 \in Nat /\ \A k \in Nat : m3 <= 255 + 256 * k => m4 <= k  BY <1>1, <1>5, <2>5
  <2> HIDE DEF m3
  <2>7. m2 \in Nat /\ \A k \in Nat : m2 <= 255 + 256 * k => m3 <= k  BY <1>1, <1>5, <2>6
  <2> HIDE DEF m2
  <2>8. m1 \in Nat /\ \A k \in Nat : m1 <= 255 + 256 * k => m2 <= k  BY <1>1, <1>5, <2>7
  <2> HIDE DEF m1
  <2>9. INT32_MAX = 255 + 256 * (255 + 256 * (255 + 256 * 127))  BY LargestInt32
  <2>10. 127 \in Nat /\ 255 + 256 * 127 \in Nat /\ 255 + 256 * (255 + 256 * 127) \in Nat
    BY SMT
  <2>11. m2 <= 255 + 256 * (255 + 256 * 127)  BY <1>2, <1>4, <2>8, <2>9, <2>10
  <2>12. m3 <= 255 + 256 * 127  BY <2>7, <2>10, <2>11
  <2>13. m4 <= 127  BY <2>6, <2>10, <2>12
  <2>14. m4 < 128  BY <2>5, <2>13, SMT
  <2> QED  BY <2>2, <2>3, <2>4, <2>5, <2>14 DEF m8
<1>7. Magnitude(v) = n
  <2>1. m4 = v[4]  BY <1>1, <1>6, SMT DEF Byte
  <2> HIDE DEF m4
  <2> QED  BY <1>4, <2>1, Zenon DEF Magnitude
<1>8. ~Exceeds(v, 4)
  <2>1. \A k \in 4 + 1 .. 8 : k = 5 \/ k = 6 \/ k = 7 \/ k = 8  BY SMT
  <2> QED  BY <1>6, <2>1, Zenon DEF Exceeds
<1>9. ~(v[4] >= 128)  BY <1>1, <1>6, SMT DEF Byte
<1> QED  BY <1>7, <1>8, <1>9, Zenon DEF TooFar

(* A register, a sign and a number, and where they are.                    *)
LEMMA Based ==
  ASSUME NEW str \in Text, NEW sign \in DOMAIN Codes, NEW number \in Text
  PROVE  LET inner == str \o << sign >> \o number
             at == Len(str) + 1
         IN  /\ inner \in Text
             /\ at \in 1 .. Len(inner)
             /\ Len(inner) = at + Len(number)
             /\ \A i \in 1 .. Len(str) : inner[i] = str[i]
             /\ inner[at] = sign
             /\ \A i \in at + 1 .. Len(inner) : /\ i - at \in 1 .. Len(number)
                                                /\ inner[i] = number[i - at]
             /\ SubSeq(inner, 1, at - 1) = str
             /\ Behind(inner, at) = number
<1> DEFINE C == DOMAIN Codes
           one == << sign >>
           m == str \o one
           inner == m \o number
           at == Len(str) + 1
           p == Len(str)
           n == Len(number)
<1>1. str \in Seq(C) /\ number \in Seq(C)  BY DEF Text
<1> HIDE DEF C
<1>2. sign \in C  BY DEF C
<1>3. one \in Seq(C) /\ Len(one) = 1 /\ one[1] = sign  BY <1>2, SMT
<1>4. p \in Nat /\ n \in Nat  BY <1>1
<1> HIDE DEF one
<1>5. /\ m \in Seq(C) /\ Len(m) = p + 1
      /\ \A i \in 1 .. p + 1 : m[i] = IF i <= p THEN str[i] ELSE one[i - p]
  <2>1. /\ m \in Seq(C) /\ Len(m) = p + Len(one)
        /\ \A i \in 1 .. p + Len(one) : m[i] = IF i <= p THEN str[i] ELSE one[i - p]
    BY <1>1, <1>3, ConcatProperties
  <2> QED  BY <1>3, <2>1, Zenon
<1> HIDE DEF m
<1>6. /\ inner \in Seq(C) /\ Len(inner) = p + 1 + n
      /\ \A i \in 1 .. p + 1 + n : inner[i] = IF i <= p + 1 THEN m[i] ELSE number[i - (p + 1)]
  <2>1. /\ inner \in Seq(C) /\ Len(inner) = Len(m) + n
        /\ \A i \in 1 .. Len(m) + n : inner[i] = IF i <= Len(m) THEN m[i] ELSE number[i - Len(m)]
    BY <1>1, <1>5, ConcatProperties
  <2> QED  BY <1>5, <2>1, Zenon
<1> HIDE DEF inner
<1>7. at = p + 1  OBVIOUS
<1> HIDE DEF at
<1>8. at \in 1 .. Len(inner) /\ Len(inner) = at + n
  <2> HIDE DEF p, n
  <2> QED  BY <1>4, <1>6, <1>7, SMT
<1>9. \A i \in 1 .. p : inner[i] = str[i]
  <2> HIDE DEF p, n
  <2>1. \A i \in 1 .. p : i \in 1 .. p + 1 /\ i \in 1 .. p + 1 + n /\ i <= p /\ i <= p + 1
    BY <1>4, SMT
  <2> QED  BY <1>5, <1>6, <2>1, Zenon
<1>10. inner[at] = sign
  <2> HIDE DEF p, n
  <2>1. at \in 1 .. p + 1 /\ at \in 1 .. p + 1 + n /\ ~(at <= p) /\ at <= p + 1 /\ at - p = 1
    BY <1>4, <1>7, SMT
  <2> QED  BY <1>3, <1>5, <1>6, <2>1, Zenon
<1>11. \A i \in at + 1 .. Len(inner) : i - at \in 1 .. n /\ inner[i] = number[i - at]
  <2> HIDE DEF p, n
  <2>1. \A i \in at + 1 .. Len(inner) :
          i \in 1 .. p + 1 + n /\ ~(i <= p + 1) /\ i - at \in 1 .. n
    BY <1>4, <1>7, <1>8, SMT
  <2> QED  BY <1>6, <1>7, <2>1, Zenon
<1>12. SubSeq(inner, 1, at - 1) = str
  <2> DEFINE s == SubSeq(inner, 1, p)
  <2>1. at - 1 = p /\ 1 \in Int /\ p \in Int /\ p - 1 + 1 = p
    <3> HIDE DEF p
    <3> QED  BY <1>4, <1>7, SMT
  <2>2. \A i \in 1 .. p : i \in 1 .. Len(inner)
    <3> HIDE DEF p, n
    <3> QED  BY <1>4, <1>7, <1>8, SMT
  <2>3. \A i \in 1 .. p : inner[i] \in C  BY <1>6, <2>2, ElementOfSeq
  <2>4. /\ s \in Seq(C) /\ Len(s) = IF 1 <= p THEN p - 1 + 1 ELSE 0
        /\ \A i \in 1 .. p - 1 + 1 : s[i] = inner[1 + i - 1]
    <3> HIDE DEF p
    <3> QED  BY <2>1, <2>3, SubSeqProperties
  <2> HIDE DEF s
  <2>5. Len(s) = p
    <3> HIDE DEF p
    <3> QED  BY <1>4, <2>4, SMT
  <2>6. \A i \in 1 .. p : s[i] = str[i]
    <3>1. \A i \in 1 .. p : 1 + i - 1 = i  BY SMT
    <3> QED  BY <1>9, <2>1, <2>4, <3>1
  <2>7. s = str  BY <1>1, <2>4, <2>5, <2>6, SeqEqual
  <2> QED  BY <2>1, <2>7 DEF s
<1>13. Behind(inner, at) = number
  <2> DEFINE f == at + 1
             l == Len(inner)
             s == SubSeq(inner, f, l)
  <2>1. f \in Int /\ l \in Int /\ l - f + 1 = n /\ (f <= l <=> n >= 1)
    <3> HIDE DEF p, n
    <3> QED  BY <1>4, <1>7, <1>8, SMT
  <2>2. \A i \in f .. l : i \in 1 .. l
    <3> HIDE DEF p, n
    <3> QED  BY <1>4, <1>7, <1>8, SMT
  <2>3. \A i \in f .. l : inner[i] \in C  BY <1>6, <2>2, ElementOfSeq
  <2>4. /\ s \in Seq(C) /\ Len(s) = IF f <= l THEN l - f + 1 ELSE 0
        /\ \A i \in 1 .. l - f + 1 : s[i] = inner[f + i - 1]
    <3> HIDE DEF f, l
    <3> QED  BY <2>1, <2>3, SubSeqProperties
  <2> HIDE DEF s
  <2>5. Len(s) = n
    <3> HIDE DEF n, f, l
    <3> QED  BY <1>4, <2>1, <2>4, SMT
  <2>6. \A i \in 1 .. n : s[i] = number[i]
    <3>1. \A i \in 1 .. n : f + i - 1 \in f .. l /\ (f + i - 1) - at = i
      <4> HIDE DEF p, n
      <4> QED  BY <1>4, <1>7, <1>8, SMT
    <3>2. \A i \in 1 .. n : s[i] = inner[f + i - 1]  BY <2>1, <2>4
    <3> QED  BY <1>11, <3>1, <3>2
  <2>7. s = number  BY <1>1, <2>4, <2>5, <2>6, SeqEqual
  <2> QED  BY <2>7, Zenon DEF s, f, l, Behind
<1>14. inner \in Text  BY <1>6 DEF C, Text
<1>15. /\ inner \in Text
       /\ at \in 1 .. Len(inner)
       /\ Len(inner) = at + Len(number)
       /\ \A i \in 1 .. Len(str) : inner[i] = str[i]
       /\ inner[at] = sign
       /\ \A i \in at + 1 .. Len(inner) : i - at \in 1 .. Len(number) /\ inner[i] = number[i - at]
       /\ SubSeq(inner, 1, at - 1) = str
       /\ Behind(inner, at) = number
  BY <1>8, <1>9, <1>10, <1>11, <1>12, <1>13, <1>14
<1> QED  BY <1>15, Zenon DEF inner, at, m, one

LEMMA NotRelative ==
  ASSUME NEW text \in Text, NEW i \in 1 .. 4, i <= Len(text),
         text[i] # RelativeLabel[i]
  PROVE  ~IsPrefix(RelativeLabel, text)
<1> DEFINE C == DOMAIN Codes
<1>1. text \in Seq(C)  BY DEF Text
<1>2. {"r", "e", "l", "$"} \subseteq C  BY Characters DEF NoName
<1> HIDE DEF C
<1>3. RelativeLabel \in Seq(C) /\ Len(RelativeLabel) = 4  BY <1>2, SMT DEF RelativeLabel
<1>4. IsPrefix(RelativeLabel, text) => text[i] = RelativeLabel[i]
  <2>1. IsPrefix(RelativeLabel, text)
          <=> Len(RelativeLabel) <= Len(text)
               /\ \A k \in 1 .. Len(RelativeLabel) : text[k] = RelativeLabel[k]
    BY <1>1, <1>3, PrefixIs
  <2> QED  BY <1>3, <2>1, Zenon
<1> QED  BY <1>4

LEMMA RelativeLetters ==
  RelativeLabel[3] = "l" /\ RelativeLabel[4] = "$"
  BY SMT DEF RelativeLabel

(* process_operand takes a register, a sign and a number up to INT32_MAX   *)
(* in brackets for the address at that distance from the register, on the  *)
(* side that the sign says: it divides the text where it was put together. *)
THEOREM AddressesAreRead ==
  ASSUME NEW str \in Text, NEW r \in Registers, Upper(str) = r.name, NEW unwritten,
         NEW sign \in {"+", "-"}, NEW number \in Text,
         NEW n \in 0 .. INT32_MAX, Stands(number, n)
  PROVE  process_operand(Bracketed(str \o << sign >> \o number), unwritten)
           = Op("REGISTER", TRUE, Signed(n, sign), [code |-> r.code, size |-> r.size])
<1> DEFINE inner == str \o << sign >> \o number
           at == Len(str) + 1
<1>1. /\ Len(str) \in Nat /\ Len(str) >= 2
      /\ \A i \in 1 .. Len(str) : str[i] \notin NoName
  BY NameOfRegister
<1>2. {"+", "-", "$"} \subseteq NoName /\ NoName \subseteq DOMAIN Codes
  BY Characters DEF NoName
<1>3. sign \in DOMAIN Codes  BY <1>2
<1>4. /\ inner \in Text
      /\ at \in 1 .. Len(inner)
      /\ Len(inner) = at + Len(number)
      /\ \A i \in 1 .. Len(str) : inner[i] = str[i]
      /\ inner[at] = sign
      /\ \A i \in at + 1 .. Len(inner) : i - at \in 1 .. Len(number) /\ inner[i] = number[i - at]
      /\ SubSeq(inner, 1, at - 1) = str
      /\ Behind(inner, at) = number
  BY <1>3, Based
<1> HIDE DEF inner
<1>5. process_operand(Bracketed(inner), unwritten) = AddressOf(inner)
  BY <1>4, BracketedIsAddress
<1>6. DOMAIN inner = 1 .. Len(inner) /\ Len(inner) \in Nat  BY <1>4 DEF Text
<1>7. \A i \in 1 .. Len(inner) : \/ i \in 1 .. Len(str) \/ i = at \/ i \in at + 1 .. Len(inner)
  BY <1>1, <1>6, SMT
<1>8. \A i \in 1 .. Len(inner) : inner[i] \in {"+", "-"} => at <= i
  BY <1>1, <1>2, <1>4, <1>6, SMT
<1>9. sign = "-" => \A i \in 1 .. Len(inner) : inner[i] # "+"
  <2>1. SUFFICES ASSUME sign = "-", NEW i \in 1 .. Len(inner) PROVE inner[i] # "+"  OBVIOUS
  <2>2. CASE i \in 1 .. Len(str)  BY <1>1, <1>2, <1>4, <2>2
  <2>3. CASE i = at  BY <1>4, <2>1, <2>3
  <2>4. CASE i \in at + 1 .. Len(inner)  BY <1>4, <2>4, NoPlusInNumber
  <2> QED  BY <1>7, <2>2, <2>3, <2>4
<1>10. SignPlace(inner) = at
  <2>1. ASSUME NEW c \in {"+", "-"}
        PROVE  /\ Places(inner, c) \subseteq Nat
               /\ \A i \in Places(inner, c) : at <= i
    BY <1>6, <1>8, SMT DEF Places
  <2>2. at \in Places(inner, sign)  BY <1>4, <1>6 DEF Places
  <2>3. Min(Places(inner, sign)) = at  BY <2>1, <2>2, LeastIs
  <2>4. CASE sign = "+"  BY <2>2, <2>3, <2>4, Zenon DEF SignPlace
  <2>5. CASE sign = "-"
    <3>1. Places(inner, "+") = {}  BY <1>6, <1>9, <2>5 DEF Places
    <3> QED  BY <2>2, <2>3, <2>5, <3>1, Zenon DEF SignPlace
  <2> QED  BY <2>4, <2>5
<1>11. ~IsPrefix(RelativeLabel, inner)
  <2>1. CASE Len(str) >= 4
    <3>1. 4 \in 1 .. Len(str) /\ 4 \in 1 .. 4 /\ 4 <= Len(inner)
      BY <1>1, <1>4, <1>6, <2>1, SMT
    <3>2. inner[4] # "$"  BY <1>1, <1>2, <1>4, <3>1
    <3> QED  BY <1>4, <3>1, <3>2, RelativeLetters, NotRelative
  <2>2. CASE Len(str) = 3
    <3>1. at = 4 /\ 4 \in 1 .. 4 /\ 4 <= Len(inner)  BY <1>4, <1>6, <2>2, SMT
    <3>2. inner[4] # "$"  BY <1>4, <3>1
    <3> QED  BY <1>4, <3>1, <3>2, RelativeLetters, NotRelative
  <2>3. CASE Len(str) = 2
    <3>1. at = 3 /\ 3 \in 1 .. 4 /\ 3 <= Len(inner)  BY <1>4, <1>6, <2>3, SMT
    <3>2. inner[3] # "l"  BY <1>4, <3>1
    <3> QED  BY <1>4, <3>1, <3>2, RelativeLetters, NotRelative
  <2>4. \A m \in Nat : m >= 2 => m >= 4 \/ m = 3 \/ m = 2  BY SMT
  <2> QED  BY <1>1, <2>1, <2>2, <2>3, <2>4
<1>12. PICK value \in Immediate :
         process_number(number, FALSE) = Number(value) /\ NumberIn(value) = n % WordSize
  BY NumberIsRead
<1>13. ~TooFar(value) /\ Magnitude(value) = n  BY <1>12, SmallNumber
<1>14. Number(value).found /\ Number(value).value = value  BY DEF Number
<1>15. at # 0  BY <1>1, SMT
<1>16. AddressOf(inner) = RegisterOperandOf(str, TRUE, Signed(n, sign))
  <2> HIDE DEF at
  <2> QED  BY <1>4, <1>10, <1>11, <1>12, <1>13, <1>14, <1>15, Zenon DEF AddressOf
<1>17. AddressOf(inner)
         = Op("REGISTER", TRUE, Signed(n, sign), [code |-> r.code, size |-> r.size])
  BY <1>16, RegisterIsRead
<1> QED  BY <1>5, <1>17 DEF inner

(* process_operand takes a register alone in brackets for the address in   *)
(* the register, without a displacement.                                   *)
THEOREM PlainAddressesAreRead ==
  ASSUME NEW str \in Text, NEW r \in Registers, Upper(str) = r.name, NEW unwritten
  PROVE  process_operand(Bracketed(str), unwritten)
           = Op("REGISTER", TRUE, 0, [code |-> r.code, size |-> r.size])
<1>1. /\ Len(str) \in Nat /\ Len(str) >= 2
      /\ \A i \in 1 .. Len(str) : str[i] \notin NoName
  BY NameOfRegister
<1>2. {"+", "-", "$"} \subseteq NoName  BY Characters
<1>3. DOMAIN str = 1 .. Len(str)  BY DEF Text
<1>4. Places(str, "+") = {} /\ Places(str, "-") = {}
  BY <1>1, <1>2, <1>3 DEF Places
<1>5. SignPlace(str) = 0  BY <1>4, Zenon DEF SignPlace
<1>6. ~IsPrefix(RelativeLabel, str)
  <2> DEFINE C == DOMAIN Codes
  <2>1. str \in Seq(C)  BY DEF Text
  <2>2. {"r", "e", "l", "$"} \subseteq C  BY Characters DEF NoName
  <2> HIDE DEF C
  <2>3. RelativeLabel \in Seq(C) /\ Len(RelativeLabel) = 4  BY <2>2, SMT DEF RelativeLabel
  <2>4. IsPrefix(RelativeLabel, str) => 4 <= Len(str) /\ str[4] = "$"
    <3>1. IsPrefix(RelativeLabel, str)
            <=> Len(RelativeLabel) <= Len(str)
                 /\ \A i \in 1 .. Len(RelativeLabel) : str[i] = RelativeLabel[i]
      BY <2>1, <2>3, PrefixIs
    <3>2. 4 \in 1 .. 4  BY SMT
    <3> QED  BY <2>3, <3>1, <3>2, RelativeLetters, Zenon
  <2>5. 4 <= Len(str) => 4 \in 1 .. Len(str)  BY <1>1, SMT
  <2> QED  BY <1>1, <1>2, <2>4, <2>5
<1>7. AddressOf(str) = RegisterOperandOf(str, TRUE, 0)
  BY <1>5, <1>6, Zenon DEF AddressOf
<1> QED  BY <1>7, BracketedIsAddress, RegisterIsRead

-----------------------------------------------------------------------------
(* What is behind the first character of a text.                           *)
LEMMA FirstAndRest ==
  ASSUME NEW c \in DOMAIN Codes, NEW rest \in Text
  PROVE  LET str == << c >> \o rest
         IN  str \in Text /\ Len(str) = 1 + Len(rest) /\ str[1] = c /\ Behind(str, 1) = rest
<1> DEFINE C == DOMAIN Codes
           e == << >>
           one == << c >>
<1>1. e \in Text /\ Len(e) = 0  BY EmptySeq DEF Text
<1>2. e \o one = one
  <2>1. c \in C  OBVIOUS
  <2> HIDE DEF C
  <2>2. one \in Seq(C)  BY <2>1
  <2> HIDE DEF one
  <2> QED  BY <2>2, ConcatEmptySeq
<1>3. /\ e \o one \o rest \in Text
      /\ Len(e \o one \o rest) = (0 + 1) + Len(rest)
      /\ (e \o one \o rest)[0 + 1] = c
      /\ Behind(e \o one \o rest, 0 + 1) = rest
  <2> HIDE DEF e
  <2> QED  BY <1>1, Based
<1>4. 0 + 1 = 1  BY SMT
<1> QED  BY <1>2, <1>3, <1>4, Zenon

(* What is before the last character of a text.                            *)
LEMMA LastAndRest ==
  ASSUME NEW rest \in Text, NEW c \in DOMAIN Codes
  PROVE  LET str == rest \o << c >>
         IN  /\ str \in Text /\ Len(str) = Len(rest) + 1
             /\ \A i \in 1 .. Len(rest) : str[i] = rest[i]
             /\ str[Len(rest) + 1] = c
<1> DEFINE C == DOMAIN Codes
           one == << c >>
           str == rest \o one
           p == Len(rest)
<1>1. rest \in Seq(C) /\ c \in C  BY DEF Text
<1> HIDE DEF C
<1>2. one \in Seq(C) /\ Len(one) = 1 /\ one[1] = c  BY <1>1, SMT
<1> HIDE DEF one
<1>3. /\ str \in Seq(C) /\ Len(str) = p + 1
      /\ \A i \in 1 .. p + 1 : str[i] = IF i <= p THEN rest[i] ELSE one[i - p]
  <2>1. /\ str \in Seq(C) /\ Len(str) = p + Len(one)
        /\ \A i \in 1 .. p + Len(one) : str[i] = IF i <= p THEN rest[i] ELSE one[i - p]
    BY <1>1, <1>2, ConcatProperties
  <2> QED  BY <1>2, <2>1, Zenon
<1>4. p \in Nat  BY <1>1
<1> HIDE DEF p, str
<1>5. /\ \A i \in 1 .. p : i \in 1 .. p + 1 /\ i <= p
      /\ p + 1 \in 1 .. p + 1 /\ ~(p + 1 <= p) /\ (p + 1) - p = 1
  BY <1>4, SMT
<1>6. (\A i \in 1 .. p : str[i] = rest[i]) /\ str[p + 1] = c
  BY <1>2, <1>3, <1>5, Zenon
<1>7. str \in Text  BY <1>3 DEF C, Text
<1> QED  BY <1>3, <1>6, <1>7, Zenon DEF str, p, one

LEMMA QuotesAreCharacters ==
  /\ {"$", "'", "DOUBLE_QUOTE"} \subseteq DOMAIN Codes
  /\ \A c \in {"$", "'", "DOUBLE_QUOTE"} : c \notin Range(DigitChars) /\ c # "-" /\ c # "["
<1>1. {"$", "'", "DOUBLE_QUOTE"} \subseteq DOMAIN Codes  BY Characters DEF NoName
<1>2. \A c \in {"$", "'", "DOUBLE_QUOTE"} : c \notin Range(DigitChars) /\ c # "-" /\ c # "["
  BY CharactersAre
<1> QED  BY <1>1, <1>2

(* An operand that begins with the sign of a label or a quote is nothing   *)
(* else.                                                                   *)
LEMMA SignDecides ==
  ASSUME NEW c \in {"$", "'", "DOUBLE_QUOTE"}, NEW rest \in Text
  PROVE  LET str == << c >> \o rest
         IN  /\ \A d \in {"$", "'", "DOUBLE_QUOTE"} : IsPrefix(<< d >>, str) <=> d = c
             /\ ~process_number(str, TRUE).found
             /\ ~InBrackets(str)
<1> DEFINE str == << c >> \o rest
<1>1. str \in Text /\ Len(str) = 1 + Len(rest) /\ str[1] = c
  BY QuotesAreCharacters, FirstAndRest
<1>2. Len(rest) \in Nat  BY DEF Text
<1> HIDE DEF str
<1>3. Len(str) >= 1  BY <1>1, <1>2, SMT
<1>4. IsPrefix(<< c >>, str)  BY <1>1, <1>3, BeginsSo
<1>5. ASSUME NEW d \in DOMAIN Codes, d # c PROVE ~IsPrefix(<< d >>, str)
  BY <1>1, <1>5, BeginsOtherwise
<1>6. \A d \in {"$", "'", "DOUBLE_QUOTE"} : IsPrefix(<< d >>, str) <=> d = c
  BY <1>4, <1>5, QuotesAreCharacters
<1>7. ~process_number(str, TRUE).found
  BY <1>1, <1>3, QuotesAreCharacters, NoNumberIsFound
<1>8. ~InBrackets(str)
  <2>1. "[" \in DOMAIN Codes /\ "[" # c  BY QuotesAreCharacters, Characters DEF NoName
  <2>2. ~IsPrefix(<< "[" >>, str)  BY <1>5, <2>1
  <2> QED  BY <2>2, Zenon DEF InBrackets
<1> QED  BY <1>6, <1>7, <1>8 DEF str

(* process_operand takes for a label the text behind its sign, or in       *)
(* brackets the text behind "rel" and the sign, whatever that text is: it  *)
(* may be a number, the name of a register, or have signs or quotes in it. *)
THEOREM LabelsAreRead ==
  ASSUME NEW name \in Text, NEW unwritten
  PROVE  /\ process_operand(<< "$" >> \o name, unwritten) = Op("LABEL", unwritten, 0, Name(name))
         /\ process_operand(Bracketed(RelativeLabel \o name), unwritten)
              = Op("LABEL", TRUE, 0, Name(name))
<1>1. process_operand(<< "$" >> \o name, unwritten) = Op("LABEL", unwritten, 0, Name(name))
  <2> DEFINE str == << "$" >> \o name
  <2>1. /\ \A d \in {"$", "'", "DOUBLE_QUOTE"} : IsPrefix(<< d >>, str) <=> d = "$"
        /\ ~process_number(str, TRUE).found
        /\ ~InBrackets(str)
    BY SignDecides
  <2>2. Behind(str, 1) = name  BY QuotesAreCharacters, FirstAndRest
  <2> HIDE DEF str
  <2>3. /\ IsPrefix(<< "$" >>, str) /\ ~IsPrefix(<< "'" >>, str)
        /\ ~IsPrefix(<< "DOUBLE_QUOTE" >>, str)
    BY <2>1
  <2>4. process_operand(str, unwritten) = Op("LABEL", unwritten, 0, Name(name))
    BY <2>1, <2>2, <2>3, Zenon DEF process_operand
  <2> QED  BY <2>4 DEF str
<1>2. process_operand(Bracketed(RelativeLabel \o name), unwritten) = Op("LABEL", TRUE, 0, Name(name))
  <2> DEFINE C == DOMAIN Codes
             rel == << "r", "e", "l" >>
             text == RelativeLabel \o name
  <2>1. {"r", "e", "l", "$"} \subseteq C  BY Characters DEF NoName
  <2>2. rel \in Text /\ Len(rel) = 3
    <3> HIDE DEF C
    <3>1. rel \in Seq(C) /\ Len(rel) = 3  BY <2>1, SMT
    <3> QED  BY <3>1 DEF C, Text
  <2>3. RelativeLabel = rel \o << "$" >>  BY SMT DEF RelativeLabel
  <2> DEFINE inner == rel \o << "$" >> \o name
  <2>4. /\ inner \in Text /\ Len(inner) = (3 + 1) + Len(name)
        /\ \A i \in 1 .. 3 : inner[i] = rel[i]
        /\ inner[3 + 1] = "$"
        /\ Behind(inner, 3 + 1) = name
    <3>1. "$" \in DOMAIN Codes  BY <2>1
    <3> HIDE DEF rel
    <3>2. /\ inner \in Text /\ Len(inner) = (Len(rel) + 1) + Len(name)
          /\ \A i \in 1 .. Len(rel) : inner[i] = rel[i]
          /\ inner[Len(rel) + 1] = "$"
          /\ Behind(inner, Len(rel) + 1) = name
      BY <2>2, <3>1, Based
    <3> HIDE DEF inner
    <3> QED  BY <2>2, <3>2, Zenon
  <2>5. inner = text  BY <2>3
  <2> HIDE DEF inner, text
  <2>6. text \in Text /\ Behind(text, 4) = name
    <3>1. 3 + 1 = 4  BY SMT
    <3> QED  BY <2>4, <2>5, <3>1, Zenon
  <2>7. IsPrefix(RelativeLabel, text)
    <3>1. text \in Seq(C)  BY <2>6 DEF Text
    <3> HIDE DEF C
    <3>2. RelativeLabel \in Seq(C) /\ Len(RelativeLabel) = 4  BY <2>1, SMT DEF RelativeLabel
    <3>3. \A i \in 1 .. 4 : text[i] = RelativeLabel[i]
      <4>1. \A i \in 1 .. 4 : i \in 1 .. 3 \/ i = 4  BY SMT
      <4>2. /\ RelativeLabel[1] = "r" /\ RelativeLabel[2] = "e" /\ RelativeLabel[3] = "l"
            /\ RelativeLabel[4] = "$"
            /\ rel[1] = "r" /\ rel[2] = "e" /\ rel[3] = "l"
        BY SMT DEF RelativeLabel
      <4> HIDE DEF rel
      <4>3. \A i \in 1 .. 3 : i = 1 \/ i = 2 \/ i = 3  BY SMT
      <4>4. \A i \in 1 .. 3 : text[i] = RelativeLabel[i]  BY <2>4, <2>5, <4>2, <4>3
      <4>5. text[4] = "$"  BY <2>4, <2>5, SMT
      <4> QED  BY <4>1, <4>2, <4>4, <4>5, Zenon
    <3>4. Len(name) \in Nat  BY DEF Text
    <3>5. 4 <= Len(text)
      <4>1. Len(text) = (3 + 1) + Len(name)  BY <2>4, <2>5
      <4> QED  BY <3>4, <4>1, SMT
    <3>6. IsPrefix(RelativeLabel, text)
            <=> Len(RelativeLabel) <= Len(text)
                 /\ \A i \in 1 .. Len(RelativeLabel) : text[i] = RelativeLabel[i]
      BY <3>1, <3>2, PrefixIs
    <3> QED  BY <3>2, <3>3, <3>5, <3>6, Zenon
  <2>8. AddressOf(text) = Op("LABEL", TRUE, 0, Name(name))
    BY <2>6, <2>7, Zenon DEF AddressOf
  <2> QED  BY <2>6, <2>8, BracketedIsAddress DEF text
<1> QED  BY <1>1, <1>2

-----------------------------------------------------------------------------
(* The characters that a backslash before them protects.                   *)
Escapes(escaped, str) ==
  \A k \in DOMAIN str :
    escaped[k] = (k > 1 /\ str[k - 1] = "BACKSLASH" /\ ~escaped[k - 1])

LEMMA EscapesExist ==
  ASSUME NEW str \in Text, NEW delim
  PROVE  \E escaped : /\ Escapes(escaped, str)
                      /\ StringEnds(str, delim)
                           = {k \in DOMAIN str : str[k] = delim /\ ~escaped[k]}
<1> DEFINE N == Len(str)
           Fits(e) == e = [k \in DOMAIN str |->
                             k > 1 /\ str[k - 1] = "BACKSLASH" /\ ~e[k - 1]]
           step == [p \in (1 .. N) \X BOOLEAN |->
                      p[1] > 1 /\ str[p[1] - 1] = "BACKSLASH" /\ ~p[2]]
<1>1. DOMAIN str = 1 .. N /\ N \in Nat  BY DEF Text
<1>2. \E f : Follows(f, N, BOOLEAN, FALSE, step)
  <2>1. step \in [(1 .. N) \X BOOLEAN -> BOOLEAN]  BY Zenon
  <2>2. FALSE \in BOOLEAN  OBVIOUS
  <2> HIDE DEF step, N
  <2> QED  BY <1>1, <2>1, <2>2, Recursion
<1>3. PICK f : Follows(f, N, BOOLEAN, FALSE, step)  BY <1>2
<1> DEFINE e == [k \in DOMAIN str |-> f[k]]
<1>4. \A k \in 1 .. N : k - 1 \in 0 .. N /\ (k > 1 => k - 1 \in 1 .. N) /\ (k - 1 # 0 <=> k > 1)
  BY <1>1, SMT
<1>5. \A k \in 1 .. N : f[k] = (k > 1 /\ str[k - 1] = "BACKSLASH" /\ ~f[k - 1])
  <2>1. SUFFICES ASSUME NEW k \in 1 .. N
                 PROVE  f[k] = (k > 1 /\ str[k - 1] = "BACKSLASH" /\ ~f[k - 1])
    OBVIOUS
  <2>2. f[k] = step[<< k, f[k - 1] >>]  BY <1>3 DEF Follows
  <2>3. f[k - 1] \in BOOLEAN  BY <1>3, <1>4 DEF Follows
  <2>4. << k, f[k - 1] >> \in (1 .. N) \X BOOLEAN  BY <2>3
  <2>5. step[<< k, f[k - 1] >>] = (k > 1 /\ str[k - 1] = "BACKSLASH" /\ ~f[k - 1])
    BY <2>4
  <2> QED  BY <2>2, <2>5, Zenon
<1>6. Fits(e)
  <2>1. \A k \in DOMAIN str : k > 1 => e[k - 1] = f[k - 1]  BY <1>1, <1>4, Zenon
  <2>2. \A k \in DOMAIN str :
          e[k] = (k > 1 /\ str[k - 1] = "BACKSLASH" /\ ~e[k - 1])
    BY <1>1, <1>5, <2>1, Zenon
  <2>3. e = [k \in DOMAIN str |-> e[k]]  BY Zenon
  <2> HIDE DEF e
  <2> QED  BY <2>2, <2>3, Zenon
<1> DEFINE escaped == CHOOSE g : Fits(g)
<1>7. Fits(escaped)
  <2> HIDE DEF Fits, e
  <2> QED  BY <1>6, Zenon
<1>8. StringEnds(str, delim) = {k \in DOMAIN str : str[k] = delim /\ ~escaped[k]}
  BY Zenon DEF StringEnds
<1> HIDE DEF escaped
<1>9. Escapes(escaped, str)  BY <1>7, Zenon DEF Escapes
<1> QED  BY <1>8, <1>9

Quoted(text, quote) == << quote >> \o (text \o << quote >>)

(* process_operand takes for a string all characters between the quotes;   *)
(* the other quote, brackets and escaped backslashes are characters like   *)
(* others.                                                                 *)
THEOREM StringsAreRead ==
  ASSUME NEW text \in Text, NEW quote \in {"'", "DOUBLE_QUOTE"}, NEW unwritten,
         \A i \in 1 .. Len(text) : text[i] # quote,
         Len(text) # 0 => text[Len(text)] # "BACKSLASH"
  PROVE  process_operand(Quoted(text, quote), unwritten)
           = Op("STRING", unwritten, 0, [i \in 1 .. Len(text) |-> Code(text[i])])
<1> DEFINE rest == text \o << quote >>
           str == << quote >> \o rest
           at == Len(text) + 1
<1>1. quote \in DOMAIN Codes  BY QuotesAreCharacters
<1>2. Len(text) \in Nat  BY DEF Text
<1>3. /\ rest \in Text /\ Len(rest) = at
      /\ \A i \in 1 .. Len(text) : rest[i] = text[i]
      /\ rest[at] = quote
  BY <1>1, LastAndRest
<1> HIDE DEF rest
<1>4. str[1] = quote /\ Behind(str, 1) = rest  BY <1>1, <1>3, FirstAndRest
<1>5. /\ \A d \in {"$", "'", "DOUBLE_QUOTE"} : IsPrefix(<< d >>, str) <=> d = quote
      /\ ~process_number(str, TRUE).found
      /\ ~InBrackets(str)
  BY <1>3, SignDecides
<1> HIDE DEF str
<1>6. process_operand(str, unwritten) = StringOperandOf(rest, quote, unwritten)
  <2>1. /\ ~IsPrefix(<< "$" >>, str)
        /\ IsPrefix(<< "'" >>, str) \/ IsPrefix(<< "DOUBLE_QUOTE" >>, str)
    BY <1>5
  <2> QED  BY <1>4, <1>5, <2>1, Zenon DEF process_operand
<1>7. DOMAIN rest = 1 .. at
  <2>1. DOMAIN rest = 1 .. Len(rest)  BY <1>3 DEF Text
  <2> QED  BY <1>3, <2>1
<1>8. at \in 1 .. at /\ at - 1 = Len(text) /\ (at > 1 => Len(text) # 0)
      /\ \A i \in 1 .. at : i = at \/ i \in 1 .. Len(text)
  BY <1>2, SMT
<1>9. PICK escaped : /\ Escapes(escaped, rest)
                     /\ StringEnds(rest, quote)
                          = {k \in DOMAIN rest : rest[k] = quote /\ ~escaped[k]}
  BY <1>3, EscapesExist
<1>10. ~escaped[at]
  <2>1. escaped[at] = (at > 1 /\ rest[at - 1] = "BACKSLASH" /\ ~escaped[at - 1])
    BY <1>7, <1>8, <1>9, Zenon DEF Escapes
  <2>2. at > 1 => rest[at - 1] # "BACKSLASH"
    <3>1. Len(text) # 0 => Len(text) \in 1 .. Len(text)  BY <1>2, SMT
    <3> HIDE DEF at
    <3> QED  BY <1>3, <1>8, <3>1
  <2> QED  BY <2>1, <2>2, Zenon
<1>11. StringEnds(rest, quote) = {at}
  <2>1. at \in StringEnds(rest, quote)  BY <1>3, <1>7, <1>8, <1>9, <1>10
  <2>2. \A k \in StringEnds(rest, quote) : k = at  BY <1>3, <1>7, <1>8, <1>9, Zenon
  <2> QED  BY <2>1, <2>2
<1>12. Min(StringEnds(rest, quote)) = at
  <2>1. at \in Nat /\ at <= at  BY <1>2, SMT
  <2> HIDE DEF at
  <2>2. Min({at}) = at  BY <2>1, LeastIs
  <2> QED  BY <1>11, <2>2
<1>13. [k \in 1 .. Min(StringEnds(rest, quote)) - 1 |-> Code(rest[k])]
         = [i \in 1 .. Len(text) |-> Code(text[i])]
  BY <1>3, <1>8, <1>12, Zenon
<1>14. StringEnds(rest, quote) # {}  BY <1>11
<1>15. StringOperandOf(rest, quote, unwritten)
         = Op("STRING", unwritten, 0, [i \in 1 .. Len(text) |-> Code(text[i])])
  BY <1>13, <1>14, Zenon DEF StringOperandOf
<1> QED  BY <1>6, <1>15 DEF Quoted, str, rest

-----------------------------------------------------------------------------
(* What is stored for a line, whether or not it is reported.               *)
Parsed == [mnemonic : STRING, dot : BOOLEAN, colon : BOOLEAN, operands : Seq(Understood)]

(* An operand that was refused is reported, and a line keeps its length.   *)
OutInv ==
  /\ lines \in Seq(SourceLine)
  /\ lines_out \in Seq(Parsed)

IInv == OutInv /\ TypeOK

-----------------------------------------------------------------------------
LEMMA ParsedLineIsParsed ==
  ASSUME NEW str \in Text, NEW colon \in BOOLEAN, NEW ops \in Seq(Understood)
  PROVE  ParsedLine(str, colon, ops) \in Parsed
<1>1. Name(str) \in STRING  BY NameIsString
<1>2. Dot(str) \in BOOLEAN  BY Zenon DEF Dot, IsPrefix
<1> QED  BY <1>1, <1>2, Zenon DEF ParsedLine, Parsed

LEMMA ParsedLineIsLine ==
  ASSUME NEW str \in Text, NEW colon \in BOOLEAN, NEW ops \in Operands
  PROVE  ParsedLine(str, colon, ops) \in Line
<1>1. Name(str) \in STRING  BY NameIsString
<1>2. Dot(str) \in BOOLEAN  BY Zenon DEF Dot, IsPrefix
<1> QED  BY <1>1, <1>2, Zenon DEF ParsedLine, Line

LEMMA PartsAreTexts ==
  ASSUME OutInv, next \in Nat \ {0}, HasParts
  PROVE  /\ next \in 1 .. Len(lines)
         /\ parts \in Seq(Text) /\ Len(parts) <= MAX_OPERANDS
         /\ mnemonic \in Text
         /\ operands \in Seq(Text) /\ Len(operands) < MAX_OPERANDS
<1>1. Len(lines) \in Nat  BY DEF OutInv
<1>2. next \in 1 .. Len(lines)  BY <1>1, SMT DEF HasParts, Done
<1>3. parts \in SourceLine  BY <1>2, ElementOfSeq DEF OutInv, parts
<1>4. parts \in Seq(Text) /\ Len(parts) <= MAX_OPERANDS  BY <1>3 DEF SourceLine
<1>5. parts # << >>  BY DEF HasParts
<1> HIDE DEF parts
<1>6. Len(parts) \in Nat \ {0} /\ Len(Tail(parts)) = Len(parts) - 1
  BY <1>4, <1>5, EmptySeq, HeadTailProperties
<1>7. Tail(parts) \in Seq(Text)  BY <1>4, <1>5, HeadTailProperties
<1>8. Len(operands) < MAX_OPERANDS
  BY <1>4, <1>6, SMT DEF operands, MAX_OPERANDS
<1>9. mnemonic \in Text
  <2>1. 1 \in 1 .. Len(parts)  BY <1>6, SMT
  <2> QED  BY <1>4, <2>1, ElementOfSeq DEF mnemonic
<1> QED  BY <1>2, <1>4, <1>7, <1>8, <1>9 DEF operands

(* What every action does: the counter and the output advance together.    *)
LEMMA FinishKeeps ==
  ASSUME IInv, ~Done, NEW line \in Parsed, NEW error \in BOOLEAN,
         Finish(line, error), ~error => line \in Line
  PROVE  IInv'
<1>1. lines' = lines /\ next' = next + 1 /\ lines_out' = Append(lines_out, line)
      /\ errors_found' = (errors_found \/ error)
  BY DEF Finish
<1>2. Len(lines) \in Nat /\ Len(lines_out) \in Nat  BY DEF IInv, OutInv
<1>3. next \in 1 .. Len(lines) + 1 /\ next <= Len(lines)
  BY <1>2, SMT DEF IInv, TypeOK, Done
<1>4. lines_out' \in Seq(Parsed) /\ Len(lines_out') = Len(lines_out) + 1
  BY <1>1, AppendProperties DEF IInv, OutInv
<1>5. OutInv'  BY <1>1, <1>4 DEF IInv, OutInv
<1>6. next' \in 1 .. Len(lines') + 1 /\ Len(lines_out') = next' - 1
  <2>1. Len(lines_out) = next - 1  BY DEF IInv, TypeOK
  <2>2. \A n, m, k \in Nat : n \in 1 .. m + 1 /\ n <= m /\ k = n - 1 =>
          n + 1 \in 1 .. m + 1 /\ k + 1 = (n + 1) - 1
    BY SMT
  <2>3. next \in Nat  BY <1>2, <1>3, SMT
  <2> QED  BY <1>1, <1>2, <1>3, <1>4, <2>1, <2>2, <2>3
<1>7. errors_found' \in BOOLEAN  BY <1>1, Zenon DEF IInv, TypeOK
<1>8. ASSUME ~errors_found' PROVE lines_out' \in Seq(Line)
  <2>1. ~errors_found /\ ~error  BY <1>1, <1>8, Zenon
  <2>2. lines_out \in Seq(Line) /\ line \in Line  BY <2>1 DEF IInv, TypeOK
  <2> QED  BY <1>1, <2>2, AppendProperties
<1> QED  BY <1>5, <1>6, <1>7, <1>8 DEF IInv, TypeOK

-----------------------------------------------------------------------------
(* The state in which assemble calls parse_source_lvl2.                    *)
Started ==
  /\ lines \in Seq(SourceLine)
  /\ next = 1 /\ lines_out = << >> /\ errors_found = FALSE

LEMMA StartedIInv == Started => IInv
<1>1. SUFFICES ASSUME Started PROVE IInv  OBVIOUS
<1>2. lines \in Seq(SourceLine)  BY <1>1 DEF Started
<1>3. Len(lines) \in Nat  BY <1>2
<1>4. 1 \in 1 .. Len(lines) + 1  BY <1>3, SMT
<1>5. next = 1 /\ lines_out = << >> /\ errors_found = FALSE  BY <1>1 DEF Started
<1>6. << >> \in Seq(Parsed) /\ << >> \in Seq(Line) /\ Len(<< >>) = 0 /\ 1 - 1 = 0
  BY EmptySeq
<1>7. OutInv  BY <1>2, <1>5, <1>6 DEF OutInv
<1>8. TypeOK  BY <1>4, <1>5, <1>6, Zenon DEF TypeOK
<1> QED  BY <1>7, <1>8 DEF IInv

LEMMA InitIInv == Init => IInv
<1>1. Init => Started  BY SourcesAssumption DEF Init, Started
<1> QED  BY <1>1, StartedIInv

LEMMA NoPartsKeeps == ASSUME IInv, LineWithoutParts PROVE IInv'
<1>1. << >> \in Text /\ << >> \in Seq(Understood)  BY DEF Text
<1>2. ParsedLine(<< >>, FALSE, << >>) \in Parsed  BY <1>1, ParsedLineIsParsed
<1> QED  BY <1>2, FinishKeeps DEF LineWithoutParts

LEMMA NoOperands ==
  /\ << >> \in Seq(Understood)
  /\ << >> \in Operands
  BY SMT DEF Operands, MAX_OPERANDS

LEMMA ColonsAreTyped == \A str : Colons(str) \subseteq BOOLEAN
  BY Zenon DEF Colons

LEMMA PositionIsTyped == IInv => next \in Nat \ {0}
<1>1. IInv => Len(lines) \in Nat /\ next \in 1 .. Len(lines) + 1
  BY DEF IInv, OutInv, TypeOK
<1> QED  BY <1>1, SMT

LEMMA DefinitionKeeps == ASSUME IInv, LabelDefinition PROVE IInv'
<1>1. PICK colon \in Colons(mnemonic) :
        Finish(ParsedLine(SubSeq(mnemonic, 1, Len(mnemonic) - 1), colon, << >>),
               operands # << >>)
  BY DEF LabelDefinition
<1>2. HasParts /\ ~Done  BY DEF LabelDefinition, HasParts
<1>3. mnemonic \in Text  BY <1>2, PartsAreTexts, PositionIsTyped DEF IInv
<1> HIDE DEF mnemonic
<1>4. SubSeq(mnemonic, 1, Len(mnemonic) - 1) \in Text
  <2>1. Len(mnemonic) \in Nat  BY <1>3 DEF Text
  <2>2. Len(mnemonic) - 1 \in Int /\ Len(mnemonic) - 1 <= Len(mnemonic) /\ 1 \in Nat \ {0}
    BY <2>1, SMT
  <2> QED  BY <1>3, <2>2, PieceIsText
<1>5. colon \in BOOLEAN  BY <1>1, ColonsAreTyped
<1> DEFINE line == ParsedLine(SubSeq(mnemonic, 1, Len(mnemonic) - 1), colon, << >>)
<1>6. line \in Parsed /\ line \in Line
  BY <1>4, <1>5, NoOperands, ParsedLineIsParsed, ParsedLineIsLine
<1> HIDE DEF line
<1>7. Finish(line, operands # << >>)  BY <1>1 DEF line
<1>8. (operands # << >>) \in BOOLEAN  OBVIOUS
<1> QED  BY <1>2, <1>6, <1>7, <1>8, FinishKeeps

LEMMA SegmentKeeps == ASSUME IInv, SegmentDefinition PROVE IInv'
<1>1. Finish(ParsedLine(Upper(mnemonic), FALSE, << >>), operands # << >>)
  BY DEF SegmentDefinition
<1>2. HasParts /\ ~Done  BY DEF SegmentDefinition, HasParts
<1>3. mnemonic \in Text  BY <1>2, PartsAreTexts, PositionIsTyped DEF IInv
<1> HIDE DEF mnemonic
<1>4. Upper(mnemonic) \in Text  BY <1>3, UpperIsText
<1> DEFINE line == ParsedLine(Upper(mnemonic), FALSE, << >>)
<1>5. line \in Parsed /\ line \in Line
  BY <1>4, NoOperands, ParsedLineIsParsed, ParsedLineIsLine
<1> HIDE DEF line
<1>6. Finish(line, operands # << >>)  BY <1>1 DEF line
<1>7. (operands # << >>) \in BOOLEAN  OBVIOUS
<1> QED  BY <1>2, <1>5, <1>6, <1>7, FinishKeeps

LEMMA InstructionKeeps == ASSUME IInv, InstructionLine PROVE IInv'
<1>1. PICK unwritten \in [DOMAIN operands -> BOOLEAN], colon \in Colons(mnemonic) :
        Finish(ParsedLine(Upper(mnemonic), colon, Processed(unwritten)),
               InstructionError(Processed(unwritten)))
  BY DEF InstructionLine
<1>2. HasParts /\ ~Done  BY DEF InstructionLine, HasParts
<1>3. mnemonic \in Text /\ operands \in Seq(Text) /\ Len(operands) < MAX_OPERANDS
  BY <1>2, PartsAreTexts, PositionIsTyped DEF IInv
<1>4. colon \in BOOLEAN  BY <1>1, ColonsAreTyped
<1>5. Len(operands) \in Nat /\ DOMAIN operands = 1 .. Len(operands)
  BY <1>3, LenProperties
<1>6. \A k \in 1 .. Len(operands) : operands[k] \in Text /\ unwritten[k] \in BOOLEAN
  <2>1. \A k \in 1 .. Len(operands) : operands[k] \in Text  BY <1>3, ElementOfSeq
  <2> QED  BY <1>1, <1>5, <2>1, Zenon
<1> DEFINE ops == Processed(unwritten)
<1>7. ops \in [1 .. Len(operands) -> Understood]
  <2>1. \A k \in 1 .. Len(operands) : process_operand(operands[k], unwritten[k]) \in Understood
    BY <1>6, OperandIsTyped, Zenon
  <2> QED  BY <1>5, <2>1, Zenon DEF Processed
<1> HIDE DEF mnemonic, operands, ops
<1>8. ops \in Seq(Understood) /\ Len(ops) = Len(operands)
  <2>1. ops \in Seq(Understood)  BY <1>5, <1>7, SeqDef
  <2> QED  BY <1>5, <1>7, <2>1, SMT
<1>9. Upper(mnemonic) \in Text  BY <1>3, UpperIsText
<1> DEFINE line == ParsedLine(Upper(mnemonic), colon, ops)
    error == InstructionError(ops)
<1>10. line \in Parsed  BY <1>4, <1>8, <1>9, ParsedLineIsParsed
<1>11. ASSUME ~error PROVE line \in Line
  <2>1. \A k \in DOMAIN ops : ops[k] # Refused  BY <1>11, Zenon DEF InstructionError
  <2>2. \A k \in 1 .. Len(operands) : ops[k] \in Operand
    BY <1>7, <2>1 DEF Understood
  <2>3. ops \in [1 .. Len(operands) -> Operand]  BY <1>7, <2>2
  <2>4. ops \in Seq(Operand)  BY <1>5, <2>3, SeqDef
  <2>5. ops \in Operands  BY <1>3, <1>8, <2>4 DEF Operands
  <2> QED  BY <1>4, <1>9, <2>5, ParsedLineIsLine
<1>12. error \in BOOLEAN  BY Zenon DEF InstructionError
<1>13. Finish(line, error)  BY <1>1 DEF ops
<1> HIDE DEF line, error
<1> QED  BY <1>2, <1>10, <1>11, <1>12, <1>13, FinishKeeps

LEMMA NextIInv == IInv /\ [Next]_vars => IInv'
<1>1. SUFFICES ASSUME IInv, [Next]_vars PROVE IInv'  OBVIOUS
<1>2. CASE UNCHANGED vars
  BY <1>1, <1>2 DEF vars, IInv, OutInv, TypeOK
<1> QED  BY <1>1, <1>2, NoPartsKeeps, DefinitionKeeps, SegmentKeeps, InstructionKeeps, Zenon DEF Next

(* Every line that parse_source_lvl2 passes on without an error has the    *)
(* types of lvl2_line_t, with operands that process_operand really filled: *)
(* an operand it gave up on has been reported, whatever the text was.      *)
THEOREM LineParserTypeCorrect == Spec => []TypeOK
<1>1. IInv => TypeOK  BY DEF IInv
<1> QED  BY <1>1, InitIInv, NextIInv, PTL DEF Spec
=============================================================================
