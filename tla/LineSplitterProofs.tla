------------------------- MODULE LineSplitterProofs -------------------------
(***************************************************************************)
(* The invariants of parse_source_lvl1 for every source and every size of  *)
(* the buffer: only a line as long as the buffer leaves it, and every part *)
(* that is handed over ends in the bytes that were copied for its line.    *)
(***************************************************************************)
EXTENDS LineSplitter, WellFoundedInduction, SequenceTheorems, TLAPS

(* What assemble puts behind the source.                                   *)
SourceEnds == Len(text) >= 2 /\ text[Len(text) - 1] = NEWLINE /\ text[Len(text)] = NUL

(* What the current line holds, and where its parts start; what a line is. *)
InLine == Char \ {NEWLINE}
BufferPlain == buffer \in Seq(InLine)
StartsInBuffer == \A k \in 1 .. Len(starts) : starts[k] <= Len(buffer)

WholeLine(line) ==
  /\ line.buffer \in Seq(InLine)
  /\ Len(line.starts) <= MAX_OPERANDS
  /\ \A p \in 1 .. Len(line.starts) : line.starts[p] < Len(line.buffer)
  /\ line.buffer # << >> => line.buffer[Len(line.buffer)] = NUL

LinesWhole == \A k \in 1 .. Len(lines) : WholeLine(lines[k])

(* The buffer never holds more characters than its line has: a zero takes  *)
(* the place of a separator, and nothing is left of the lines before.      *)
BufferWithinLine ==
  /\ Len(buffer) <= at - 1
  /\ \A j \in 1 .. at - 1 :
       text[j] = NEWLINE => Len(buffer) <= at - 1 - j

(* The parts are in the buffer of the current line before they are in that *)
(* of the finished one: PartsInBuffer needs StartsInBuffer, as             *)
(* OnlyLongLinesOverrun needs BufferWithinLine.                            *)
IInv ==
  /\ SourceEnds /\ TypeOK
  /\ OnlyLongLinesOverrun /\ BufferWithinLine /\ BufferPlain /\ StartsInBuffer /\ LinesWhole

LineType == [buffer : Seq(Char), starts : Seq(Nat)]

-----------------------------------------------------------------------------
LEMMA AppendFacts ==
  \A S : \A s \in Seq(S), x \in S : \A w : w = Append(s, x) =>
    /\ w \in Seq(S)
    /\ Len(w) = Len(s) + 1
    /\ \A i \in 1 .. Len(s) : w[i] = s[i]
    /\ w[Len(s) + 1] = x
  BY SMT

LEMMA LenNat == \A S : \A s \in Seq(S) : Len(s) \in Nat
  BY SMT

LEMMA CharFacts ==
  /\ NUL \in Char /\ NEWLINE \in Char /\ BACKSLASH \in Char
  /\ NEWLINE # NUL
  /\ Quotes \subseteq Char
  /\ NUL \in InLine /\ InLine \subseteq Char
  BY DEF NUL, NEWLINE, BACKSLASH, Char, InLine

(* A character is always there to be taken.                                *)
LEMMA CurrentChar ==
  ASSUME IInv PROVE Current \in Char
<1>1. text \in Seq(Char) /\ at \in 1 .. Len(text)  BY DEF IInv, TypeOK
<1> QED  BY SMT, <1>1 DEF Current

LEMMA TakeAt ==
  ASSUME IInv, Take
  PROVE  /\ at \in Nat \ {0} /\ at' = at + 1 /\ at' \in 1 .. Len(text') /\ text' = text
         /\ overrun' = FALSE /\ OnlyLongLinesOverrun'
<1>1. text \in Seq(Char) /\ at \in 1 .. Len(text)  BY DEF IInv, TypeOK
<1>2. Len(text) \in Nat  BY <1>1, LenNat
<1>3. text[Len(text)] = NUL  BY DEF IInv, SourceEnds
<1>4. text[at] # NUL  BY DEF Take, Done, Current
<1>5. at # Len(text)  BY <1>3, <1>4
<1>6. overrun' = FALSE  BY DEF Take, IInv, TypeOK
<1>7. OnlyLongLinesOverrun'  BY <1>6 DEF OnlyLongLinesOverrun
<1>8. at \in Nat \ {0} /\ at' = at + 1 /\ at' \in 1 .. Len(text') /\ text' = text
  BY SMT, <1>1, <1>2, <1>5 DEF Take
<1> QED  BY <1>6, <1>7, <1>8

-----------------------------------------------------------------------------
(* What a step may do to the buffer, while it is in a line.                *)
LEMMA SameLineBuffer ==
  ASSUME IInv, Take, Current # NEWLINE,
         buffer' = buffer \/ (InBuffer /\ \E c \in InLine : buffer' = Append(buffer, c))
  PROVE  /\ buffer' \in Seq(Char) /\ BufferPlain' /\ Len(buffer') <= BUFFER_SIZE
         /\ Len(buffer) \in Nat /\ Len(buffer') \in Nat
         /\ Len(buffer) <= Len(buffer')
         /\ BufferWithinLine'
<1>1. buffer \in Seq(Char) /\ Len(buffer) \in Nat /\ Len(buffer) <= BUFFER_SIZE
  BY LenNat DEF IInv, TypeOK
<1>2. /\ buffer' \in Seq(Char) /\ Len(buffer') \in {Len(buffer), Len(buffer) + 1}
      /\ buffer' = buffer \/ (InBuffer /\ Len(buffer') = Len(buffer) + 1)
  <2>1. CASE buffer' = buffer  BY <1>1, <2>1
  <2>2. CASE \E c \in InLine : buffer' = Append(buffer, c)
    BY <1>1, <2>2, AppendFacts, CharFacts
  <2> QED  BY <2>1, <2>2
<1>3. at \in Nat \ {0} /\ at' = at + 1 /\ text' = text  BY TakeAt
<1>4. Len(buffer') <= at' - 1
  BY SMT, <1>1, <1>2, <1>3 DEF IInv, BufferWithinLine
<1>5. ASSUME NEW j \in 1 .. at' - 1, text'[j] = NEWLINE
      PROVE  Len(buffer') <= at' - 1 - j
  <2>1. j # at  BY <1>3, <1>5 DEF Current
  <2>2. j \in 1 .. at - 1  BY SMT, <1>3, <2>1
  <2>3. Len(buffer) <= at - 1 - j
    BY <1>3, <1>5, <2>2 DEF IInv, BufferWithinLine
  <2>4. j \in Int  OBVIOUS
  <2> QED  BY SMT, <1>1, <1>2, <1>3, <2>3, <2>4
<1>6. BufferWithinLine'  BY <1>4, <1>5 DEF BufferWithinLine
<1>7. Len(buffer') \in Nat /\ Len(buffer) <= Len(buffer')  BY SMT, <1>1, <1>2
<1>8. BufferPlain'  BY AppendFacts DEF IInv, BufferPlain
<1>9. Len(buffer') <= BUFFER_SIZE
  <2>1. CASE buffer' = buffer  BY <1>1, <2>1
  <2>2. CASE InBuffer /\ Len(buffer') = Len(buffer) + 1
    BY SMT, <1>1, <2>2, BufferSizeAssumption DEF InBuffer
  <2> QED  BY <1>2, <2>1, <2>2
<1> QED  BY <1>1, <1>2, <1>6, <1>7, <1>8, <1>9

(* A step inside a line that does not finish it preserves the invariant.   *)
LEMMA SameLineStep ==
  ASSUME IInv, Take, Current # NEWLINE,
         buffer' = buffer \/ (InBuffer /\ \E c \in InLine : buffer' = Append(buffer, c)),
         UNCHANGED starts \/ (Len(starts) < MAX_OPERANDS
                                /\ starts' = Append(starts, Len(buffer))),
         UNCHANGED lines,
         was_code' \in BOOLEAN, comment' \in BOOLEAN, escape' \in BOOLEAN,
         is_register_info' \in BOOLEAN, string_char' \in Quotes \cup {NUL},
         errors_found' \in BOOLEAN
  PROVE  IInv'
<1>1. /\ buffer' \in Seq(Char) /\ Len(buffer) \in Nat /\ Len(buffer') \in Nat
      /\ Len(buffer) <= Len(buffer') /\ BufferWithinLine' /\ BufferPlain'
      /\ Len(buffer') <= BUFFER_SIZE
  BY SameLineBuffer
<1>2. /\ at' \in 1 .. Len(text') /\ text' = text
      /\ overrun' = FALSE /\ OnlyLongLinesOverrun'
  BY TakeAt
<1>3. starts \in Seq(Nat) /\ Len(starts) \in Nat /\ Len(starts) <= MAX_OPERANDS
  BY LenNat DEF IInv, TypeOK
<1>4. /\ starts' \in Seq(Nat) /\ Len(starts') <= MAX_OPERANDS
      /\ \A k \in 1 .. Len(starts') : starts'[k] <= Len(buffer')
  <2>1. \A k \in 1 .. Len(starts) : starts[k] \in Nat /\ starts[k] <= Len(buffer')
    <3>1. \A k \in 1 .. Len(starts) : starts[k] \in Nat  BY SMT, <1>3
    <3>2. \A k \in 1 .. Len(starts) : starts[k] <= Len(buffer)
      BY DEF IInv, StartsInBuffer
    <3> QED  BY SMT, <1>1, <3>1, <3>2
  <2>2. CASE UNCHANGED starts  BY <1>3, <2>1, <2>2
  <2>3. CASE Len(starts) < MAX_OPERANDS /\ starts' = Append(starts, Len(buffer))
    <3>1. /\ starts' \in Seq(Nat) /\ Len(starts') = Len(starts) + 1
          /\ \A i \in 1 .. Len(starts) : starts'[i] = starts[i]
          /\ starts'[Len(starts) + 1] = Len(buffer)
      BY <1>1, <1>3, <2>3, AppendFacts
    <3>2. Len(starts') <= MAX_OPERANDS  BY SMT, <1>3, <2>3, <3>1 DEF MAX_OPERANDS
    <3>3. ASSUME NEW k \in 1 .. Len(starts') PROVE starts'[k] <= Len(buffer')
      <4>1. CASE k \in 1 .. Len(starts)  BY <2>1, <3>1, <4>1
      <4>2. CASE k = Len(starts) + 1  BY <1>1, <3>1, <4>2
      <4>3. k \in 1 .. Len(starts) \/ k = Len(starts) + 1  BY SMT, <1>3, <3>1
      <4> QED  BY <4>1, <4>2, <4>3
    <3> QED  BY <3>1, <3>2, <3>3
  <2> QED  BY <2>2, <2>3
<1>5. text \in Seq(Char) /\ lines \in Seq(LineType)
  BY DEF IInv, TypeOK, LineType
<1>6. TypeOK'  BY <1>1, <1>2, <1>4, <1>5 DEF TypeOK, LineType
<1>7. StartsInBuffer'  BY <1>4 DEF StartsInBuffer
<1>8. LinesWhole'  BY DEF IInv, LinesWhole
<1>9. SourceEnds'  BY <1>2 DEF IInv, SourceEnds
<1> QED  BY <1>1, <1>2, <1>6, <1>7, <1>8, <1>9 DEF IInv

-----------------------------------------------------------------------------
LEMMA Flags ==
  ASSUME IInv
  PROVE  /\ was_code \in BOOLEAN /\ comment \in BOOLEAN /\ escape \in BOOLEAN
         /\ is_register_info \in BOOLEAN /\ string_char \in Quotes \cup {NUL}
         /\ errors_found \in BOOLEAN
  BY DEF IInv, TypeOK

LEMMA SeparatorIsNoNewline ==
  ASSUME Current \in Separators PROVE Current # NEWLINE
  BY DEF Separators, NEWLINE

LEMMA CodeIsNoNewline ==
  ASSUME IsCode PROVE Current # NEWLINE
  BY DEF IsCode

(* One step per action in front of the newline.                            *)
LEMMA SeparatorSteps ==
  ASSUME IInv,
         \/ DropSeparator \/ KeepSeparator \/ EndPart \/ UnexpectedComma
         \/ StartComment \/ DropSpace
  PROVE  IInv'
<1> USE Flags
<1>1. Current \in Separators /\ Current # NEWLINE /\ Take /\ escape' = FALSE
  BY SeparatorIsNoNewline
     DEF DropSeparator, KeepSeparator, InString, EndPart, UnexpectedComma,
         StartComment, DropSpace, Separates, TakePlain
<1>2. Current \in InLine /\ NUL \in InLine
  BY <1>1, CurrentChar, CharFacts DEF InLine
<1>3. CASE DropSeparator \/ UnexpectedComma \/ DropSpace
  <2>1. UNCHANGED << flags, buffer, starts, lines >> /\ errors_found' \in BOOLEAN
    BY <1>3 DEF DropSeparator, UnexpectedComma, DropSpace
  <2> QED  BY <1>1, <2>1, SameLineStep DEF flags
<1>4. CASE KeepSeparator
  BY <1>1, <1>2, <1>4, SameLineStep DEF KeepSeparator, flags
<1>5. CASE EndPart
  BY <1>1, <1>2, <1>5, SameLineStep DEF EndPart
<1>6. CASE StartComment  BY <1>1, <1>6, SameLineStep DEF StartComment
<1> QED  BY <1>3, <1>4, <1>5, <1>6

LEMMA CodeSteps ==
  ASSUME IInv,
         \/ DropComment \/ UnexpectedBracket \/ TooManyOperands
         \/ EscapeNext \/ AddCharacter
  PROVE  IInv'
<1> USE Flags
<1>1. IsCode /\ Current # NEWLINE /\ Take /\ escape' \in BOOLEAN
  BY CodeIsNoNewline
     DEF DropComment, UnexpectedBracket, TooManyOperands, EscapeNext,
         AddCharacter, Collects, InCode, TakePlain
<1>2. Current \in InLine  BY <1>1, CurrentChar DEF InLine
<1>3. SetRegisterInfo => is_register_info' \in BOOLEAN  BY DEF SetRegisterInfo
<1>4. CASE DropComment \/ UnexpectedBracket
  <2>1. UNCHANGED << flags, buffer, starts, lines >> /\ errors_found' \in BOOLEAN
    BY <1>4 DEF DropComment, UnexpectedBracket
  <2> QED  BY <1>1, <2>1, SameLineStep DEF flags
<1>5. CASE TooManyOperands
  BY <1>1, <1>3, <1>5, SameLineStep DEF TooManyOperands
<1>6. ASSUME Collects
      PROVE  /\ \/ UNCHANGED starts
                \/ Len(starts) < MAX_OPERANDS /\ starts' = Append(starts, Len(buffer))
             /\ was_code' \in BOOLEAN /\ is_register_info' \in BOOLEAN
             /\ UNCHANGED << comment, lines, errors_found >>
  BY <1>3, <1>6 DEF Collects, InCode, RoomForPart
<1>7. CASE EscapeNext
  <2>1. Collects /\ UNCHANGED << buffer, string_char >>  BY <1>7 DEF EscapeNext
  <2> QED  BY <1>1, <1>6, <2>1, SameLineStep
<1>8. CASE AddCharacter
  <2>1. /\ Collects /\ InBuffer /\ buffer' = Append(buffer, Current)
        /\ string_char' = StringCharAfter
    BY <1>8 DEF AddCharacter
  <2>2. StringCharAfter \in Quotes \cup {NUL}  BY DEF StringCharAfter
  <2> QED  BY <1>1, <1>2, <1>6, <2>1, <2>2, SameLineStep
<1> QED  BY <1>4, <1>5, <1>7, <1>8

(* The newline.                                                            *)
LEMMA NewLineWhole ==
  ASSUME IInv PROVE NewLine \in LineType /\ WholeLine(NewLine)
<1>1. /\ buffer \in Seq(InLine) /\ buffer \in Seq(Char) /\ starts \in Seq(Nat)
      /\ NUL \in InLine /\ NUL \in Char /\ Len(starts) <= MAX_OPERANDS
  BY CharFacts DEF IInv, TypeOK, BufferPlain
<1>2. PICK b : b = Append(buffer, NUL)  OBVIOUS
<1>3. /\ b \in Seq(InLine) /\ b \in Seq(Char)
      /\ Len(b) = Len(buffer) + 1 /\ b[Len(buffer) + 1] = NUL
  BY <1>1, <1>2, AppendFacts
<1>4. NewLine = [buffer |-> b, starts |-> starts]  BY <1>2 DEF NewLine
<1>5. NewLine.buffer = b /\ NewLine.starts = starts  BY <1>4
<1>6. ASSUME NEW p \in 1 .. Len(starts) PROVE starts[p] < Len(b)
  <2>1. starts[p] <= Len(buffer)  BY DEF IInv, StartsInBuffer
  <2>2. starts[p] \in Nat  BY SMT, <1>1
  <2>3. Len(buffer) \in Nat  BY <1>1, LenNat
  <2> QED  BY SMT, <1>3, <2>1, <2>2, <2>3
<1>7. NewLine \in LineType  BY <1>1, <1>3, <1>4 DEF LineType
<1> QED  BY <1>1, <1>3, <1>5, <1>6, <1>7 DEF WholeLine

LEMMA NewlineSteps ==
  ASSUME IInv, EmptyLine \/ EndLine
  PROVE  IInv'
<1>1. /\ Take /\ escape' = FALSE /\ comment' = FALSE /\ was_code' = FALSE
      /\ is_register_info' = FALSE /\ UNCHANGED << string_char, errors_found >>
  BY DEF EmptyLine, EndLine, EndsLine, TakePlain
<1>2. /\ at \in Nat \ {0} /\ at' = at + 1 /\ at' \in 1 .. Len(text') /\ text' = text
      /\ overrun' = FALSE /\ OnlyLongLinesOverrun'
  BY <1>1, TakeAt
<1>3. buffer' = << >>  BY DEF EmptyLine, EndLine
<1>4. /\ Len(buffer') = 0 /\ buffer' \in Seq(Char) /\ buffer' \in Seq(InLine)
      /\ Len(buffer') <= BUFFER_SIZE
  BY SMT, <1>3, BufferSizeAssumption
<1>5. BufferWithinLine'
  <2>1. 0 <= at' - 1 /\ \A j \in 1 .. at' - 1 : 0 <= at' - 1 - j  BY SMT, <1>2
  <2> QED  BY <1>4, <2>1 DEF BufferWithinLine
<1>6. /\ starts' \in Seq(Nat) /\ Len(starts') <= MAX_OPERANDS
      /\ \A k \in 1 .. Len(starts') : starts'[k] <= Len(buffer')
  <2>1. CASE EmptyLine
    <3>1. UNCHANGED starts /\ buffer' = buffer  BY <2>1 DEF EmptyLine
    <3> QED  BY <3>1 DEF IInv, TypeOK, StartsInBuffer
  <2>2. CASE EndLine
    <3>1. starts' = << >>  BY <2>2 DEF EndLine
    <3>2. starts' \in Seq(Nat) /\ Len(starts') = 0  BY SMT, <3>1
    <3> QED  BY SMT, <3>2 DEF MAX_OPERANDS
  <2> QED  BY <2>1, <2>2
<1>7. lines' \in Seq(LineType) /\ \A k \in 1 .. Len(lines') : WholeLine(lines'[k])
  <2>1. lines \in Seq(LineType) /\ \A k \in 1 .. Len(lines) : WholeLine(lines[k])
    BY DEF IInv, TypeOK, LinesWhole, LineType
  <2>2. CASE UNCHANGED lines  BY <2>1, <2>2
  <2>3. CASE lines' = Append(lines, NewLine)
    <3>1. /\ lines' \in Seq(LineType) /\ Len(lines') = Len(lines) + 1
          /\ \A i \in 1 .. Len(lines) : lines'[i] = lines[i]
          /\ lines'[Len(lines) + 1] = NewLine
      BY <2>1, <2>3, NewLineWhole, AppendFacts
    <3>2. \A k \in 1 .. Len(lines') : k \in 1 .. Len(lines) \/ k = Len(lines) + 1
      <4>1. Len(lines) \in Nat  BY <2>1, LenNat
      <4> QED  BY SMT, <3>1, <4>1
    <3> QED  BY <2>1, <3>1, <3>2, NewLineWhole
  <2> QED  BY <2>2, <2>3 DEF EmptyLine, EndLine
<1>8. text \in Seq(Char) /\ SourceEnds'  BY <1>2 DEF IInv, TypeOK, SourceEnds
<1>9. TypeOK'
  BY <1>1, <1>2, <1>4, <1>6, <1>7, <1>8, Flags DEF TypeOK, LineType
<1> QED
  BY <1>2, <1>4, <1>5, <1>6, <1>7, <1>8, <1>9
     DEF IInv, BufferPlain, StartsInBuffer, LinesWhole

(* A full buffer holds no more than its line: the line is as long.         *)
LEMMA OverrunStep ==
  ASSUME IInv, Overrun
  PROVE  IInv'
<1>1. /\ ~InBuffer /\ overrun' = TRUE
      /\ UNCHANGED << text, at, buffer, flags, escape, starts, lines, errors_found >>
  BY DEF Overrun
<1>2. /\ Len(buffer) \in Nat /\ Len(text) \in Nat /\ at \in 1 .. Len(text)
      /\ BUFFER_SIZE \in Nat \ {0}
  BY LenNat, BufferSizeAssumption DEF IInv, TypeOK
<1>3. BUFFER_SIZE <= Len(buffer)  BY SMT, <1>1, <1>2 DEF InBuffer
<1>4. at > BUFFER_SIZE
  <2>1. Len(buffer) <= at - 1  BY DEF IInv, BufferWithinLine
  <2> QED  BY SMT, <1>2, <1>3, <2>1
<1>5. ASSUME NEW j \in at - BUFFER_SIZE .. at - 1 PROVE text[j] # NEWLINE
  <2>1. j \in 1 .. at - 1  BY SMT, <1>2, <1>4
  <2>2. text[j] = NEWLINE => Len(buffer) <= at - 1 - j
    BY <2>1 DEF IInv, BufferWithinLine
  <2>3. ~(Len(buffer) <= at - 1 - j)  BY SMT, <1>2, <1>3, <2>1
  <2> QED  BY <2>2, <2>3
<1>6. OnlyLongLinesOverrun'  BY <1>1, <1>4, <1>5 DEF OnlyLongLinesOverrun
<1>7. TypeOK'  BY <1>1 DEF IInv, TypeOK, flags
<1> QED
  BY <1>1, <1>6, <1>7
     DEF IInv, SourceEnds, BufferWithinLine, BufferPlain, StartsInBuffer, LinesWhole

-----------------------------------------------------------------------------
(* The state in which assemble calls parse_source_lvl1.                    *)
Started ==
  /\ text \in Seq(Char) /\ SourceEnds
  /\ at = 1 /\ buffer = << >> /\ overrun = FALSE /\ starts = << >> /\ lines = << >>
  /\ was_code = FALSE /\ comment = FALSE /\ escape = FALSE
  /\ is_register_info = FALSE /\ string_char = NUL /\ errors_found = FALSE

LEMMA StartedIInv == Started => IInv
<1> SUFFICES ASSUME Started PROVE IInv
  OBVIOUS
<1>1. text \in Seq(Char) /\ SourceEnds
  BY DEF Started
<1>2. at = 1 /\ buffer = << >> /\ overrun = FALSE /\ starts = << >> /\ lines = << >>
  BY DEF Started
<1>3. Len(text) \in Nat /\ Len(text) >= 2  BY <1>1, LenNat DEF SourceEnds
<1>4. at \in 1 .. Len(text)  BY SMT, <1>2, <1>3
<1>5. Len(buffer) = 0 /\ Len(starts) = 0 /\ Len(lines) = 0  BY SMT, <1>2
<1>6. \A k \in 1 .. 0 : FALSE  BY SMT
<1>7. /\ buffer \in Seq(Char) /\ buffer \in Seq(InLine)
      /\ starts \in Seq(Nat) /\ lines \in Seq(LineType)
  BY SMT, <1>2
<1>8. Len(starts) <= MAX_OPERANDS /\ Len(buffer) <= BUFFER_SIZE
  BY SMT, <1>5, BufferSizeAssumption DEF MAX_OPERANDS
<1>9. TypeOK
  BY <1>1, <1>4, <1>7, <1>8 DEF Started, TypeOK, LineType
<1>10. BufferWithinLine
  <2>1. at - 1 = 0  BY SMT, <1>2
  <2>2. 0 <= 0  BY SMT
  <2> QED  BY <1>5, <1>6, <2>1, <2>2 DEF BufferWithinLine
<1>11. OnlyLongLinesOverrun  BY <1>2 DEF OnlyLongLinesOverrun
<1> QED
  BY <1>1, <1>5, <1>6, <1>7, <1>9, <1>10, <1>11
     DEF IInv, BufferPlain, StartsInBuffer, LinesWhole

LEMMA InitIInv == Init => IInv
<1>1. Init => Started  BY TextsAssumption DEF Init, Started, SourceEnds
<1> QED  BY <1>1, StartedIInv

LEMMA NextIInv == IInv /\ [Next]_vars => IInv'
<1> SUFFICES ASSUME IInv, [Next]_vars PROVE IInv'
  OBVIOUS
<1>1. CASE \/ DropSeparator \/ KeepSeparator \/ EndPart \/ UnexpectedComma
           \/ StartComment \/ DropSpace
  BY <1>1, SeparatorSteps
<1>2. CASE EmptyLine \/ EndLine  BY <1>2, NewlineSteps
<1>3. CASE \/ DropComment \/ UnexpectedBracket \/ TooManyOperands
           \/ EscapeNext \/ AddCharacter
  BY <1>3, CodeSteps
<1>4. CASE UNCHANGED vars
  BY <1>4
     DEF vars, IInv, SourceEnds, TypeOK, OnlyLongLinesOverrun, BufferWithinLine,
         BufferPlain, StartsInBuffer, LinesWhole
<1>5. CASE Overrun  BY <1>5, OverrunStep
<1> QED  BY <1>1, <1>2, <1>3, <1>4, <1>5 DEF Next

(* The invariant of parse_source_lvl1, for every source.                   *)
THEOREM SplitterInvariant == Spec => []IInv
<1>1. Init => IInv  BY InitIInv
<1>2. IInv /\ [Next]_vars => IInv'  BY NextIInv
<1> QED  BY <1>1, <1>2, PTL DEF Spec

(* All variables keep the types that the C declarations give them; the     *)
(* array of operands is never written behind its end.                      *)
THEOREM SplitterTypeCorrect == Spec => []TypeOK
<1>1. IInv => TypeOK  BY DEF IInv
<1> QED  BY <1>1, SplitterInvariant, PTL

(* Whatever the source, all bytes that are used are in the buffer, unless  *)
(* some line has as many characters as the buffer has bytes.               *)
THEOREM SplitterOverrun == Spec => []OnlyLongLinesOverrun
<1>1. IInv => OnlyLongLinesOverrun  BY DEF IInv
<1> QED  BY <1>1, SplitterInvariant, PTL

LEMMA PartsEndInBuffer == ASSUME IInv PROVE PartsInBuffer
<1>1. lines \in Seq(LineType)  BY DEF IInv, TypeOK, LineType
<1> SUFFICES ASSUME NEW k \in DOMAIN lines, NEW p \in DOMAIN lines[k].starts
             PROVE  \E j \in lines[k].starts[p] + 1 .. Len(lines[k].buffer) :
                      lines[k].buffer[j] = NUL
  BY DEF PartsInBuffer
<1>2. k \in 1 .. Len(lines) /\ lines[k] \in LineType  BY SMT, <1>1
<1>3. lines[k].buffer \in Seq(Char) /\ lines[k].starts \in Seq(Nat)
  BY SMT, <1>2 DEF LineType
<1>4. p \in 1 .. Len(lines[k].starts) /\ lines[k].starts[p] \in Nat
  BY SMT, <1>3
<1>5. lines[k].starts[p] < Len(lines[k].buffer)
  BY <1>2, <1>4 DEF IInv, LinesWhole, WholeLine
<1>6. Len(lines[k].buffer) \in Nat  BY <1>3, LenNat
<1>7. Len(lines[k].buffer) # 0  BY SMT, <1>4, <1>5, <1>6
<1>8. lines[k].buffer # << >>  BY SMT, <1>7
<1>9. lines[k].buffer[Len(lines[k].buffer)] = NUL
  BY <1>2, <1>8 DEF IInv, LinesWhole, WholeLine
<1>10. Len(lines[k].buffer) \in lines[k].starts[p] + 1 .. Len(lines[k].buffer)
  BY SMT, <1>4, <1>5, <1>6
<1> QED  BY <1>9, <1>10

(* Every part that is handed over ends within the bytes of its line.       *)
THEOREM SplitterPartsInBuffer == Spec => []PartsInBuffer
<1> QED  BY PartsEndInBuffer, SplitterInvariant, PTL

-----------------------------------------------------------------------------
(* What parse_source_lvl2 reads of a line: parts without a NUL or a newline *)
(* in them, as many as lvl1_line_t has room for.                           *)
LEMMA Smallest ==
  ASSUME NEW T, T \subseteq Nat, T # {}
  PROVE  \E x \in T : \A y \in T : x <= y
<1>1. IsWellFoundedOn(OpToRel(<, Nat), Nat)  BY NatLessThanWellFounded, Zenon
<1>2. \E x \in T : \A y \in T : ~(<< y, x >> \in OpToRel(<, Nat))
  BY <1>1, WFMin, Zenon
<1>3. \A x, y \in Nat : ~(<< y, x >> \in OpToRel(<, Nat)) => x <= y
  BY SMT DEF OpToRel
<1> QED  BY <1>2, <1>3

PartChar == InLine \ {NUL}

LEMMA CStringIsPart ==
  ASSUME NEW b \in Seq(InLine), NEW n \in Nat, n < Len(b), b[Len(b)] = NUL
  PROVE  CString(b, n) \in Seq(PartChar)
<1> DEFINE ends == {j \in n + 1 .. Len(b) : b[j] = NUL}
<1>1. Len(b) \in Nat  BY LenNat
<1>2. Len(b) \in ends /\ ends \subseteq Nat  BY <1>1, SMT
<1>3. \E x \in ends : \A y \in ends : x <= y  BY <1>2, Smallest
<1> DEFINE end == CHOOSE j \in ends : \A i \in ends : j <= i
<1>4. end \in ends /\ \A i \in ends : end <= i  BY <1>3
<1>5. CString(b, n) = SubSeq(b, n + 1, end - 1)  BY DEF CString
<1>6. end \in n + 1 .. Len(b)  BY <1>4
<1> HIDE DEF end
<1>7. \A i \in n + 1 .. end - 1 : i \in 1 .. Len(b) /\ i \in n + 1 .. Len(b) /\ ~(end <= i)
  BY <1>1, <1>6, SMT
<1>8. \A i \in n + 1 .. end - 1 : b[i] \in PartChar
  <2>1. \A i \in 1 .. Len(b) : b[i] \in InLine  BY ElementOfSeq
  <2>2. \A i \in n + 1 .. end - 1 : b[i] # NUL  BY <1>4, <1>7
  <2> QED  BY <1>7, <2>1, <2>2 DEF PartChar
<1>9. n + 1 \in Nat /\ end - 1 \in Int /\ n + 1 \in Int  BY <1>1, <1>6, SMT
<1>10. SubSeq(b, n + 1, end - 1) \in Seq(PartChar)  BY <1>8, <1>9, SubSeqProperties
<1> QED  BY <1>5, <1>10

PartsType == {parts \in Seq(Seq(PartChar)) : Len(parts) <= MAX_OPERANDS}

LEMMA DeliveredIsTyped ==
  ASSUME IInv
  PROVE  /\ Delivered \in Seq(PartsType)
         /\ \A k \in DOMAIN lines : Len(lines[k].starts) <= MAX_OPERANDS
<1>1. lines \in Seq(LineType)  BY DEF IInv, TypeOK, LineType
<1>2. Len(lines) \in Nat /\ DOMAIN lines = 1 .. Len(lines)  BY <1>1, LenProperties
<1>3. ASSUME NEW k \in 1 .. Len(lines)
      PROVE  PartsOf(lines[k]) \in PartsType /\ Len(lines[k].starts) <= MAX_OPERANDS
  <2> DEFINE line == lines[k]
  <2>1. line \in LineType /\ WholeLine(line)
    BY <1>1, ElementOfSeq DEF IInv, LinesWhole
  <2> HIDE DEF line
  <2>2. /\ line.buffer \in Seq(InLine) /\ line.starts \in Seq(Nat)
        /\ Len(line.starts) <= MAX_OPERANDS
        /\ \A p \in 1 .. Len(line.starts) : line.starts[p] < Len(line.buffer)
    BY <2>1 DEF LineType, WholeLine
  <2>3. Len(line.starts) \in Nat /\ DOMAIN line.starts = 1 .. Len(line.starts)
    BY <2>2, LenProperties
  <2>4. ASSUME NEW p \in 1 .. Len(line.starts)
        PROVE  CString(line.buffer, line.starts[p]) \in Seq(PartChar)
    <3>1. line.starts[p] \in Nat /\ line.starts[p] < Len(line.buffer)
      BY <2>2, ElementOfSeq
    <3>2. Len(line.buffer) \in Nat  BY <2>2, LenNat
    <3>3. Len(line.buffer) # 0  BY <3>1, <3>2, SMT
    <3>4. line.buffer # << >>  BY <3>3, SMT
    <3>5. line.buffer[Len(line.buffer)] = NUL  BY <2>1, <3>4 DEF WholeLine
    <3> QED  BY <2>2, <3>1, <3>5, CStringIsPart
  <2>5. PartsOf(line) \in [1 .. Len(line.starts) -> Seq(PartChar)]
    BY <2>3, <2>4 DEF PartsOf
  <2>6. PartsOf(line) \in Seq(Seq(PartChar)) /\ Len(PartsOf(line)) = Len(line.starts)
    <3> HIDE DEF PartsOf
    <3>1. PartsOf(line) \in Seq(Seq(PartChar))  BY <2>3, <2>5, SeqDef
    <3> QED  BY <2>3, <2>5, <3>1, LenProperties
  <2>7. PartsOf(line) \in PartsType  BY <2>2, <2>6 DEF PartsType
  <2> QED  BY <2>2, <2>7 DEF line
<1>4. Delivered \in [1 .. Len(lines) -> PartsType]
  BY <1>2, <1>3 DEF Delivered
<1>5. Delivered \in Seq(PartsType)
  <2> HIDE DEF Delivered
  <2> QED  BY <1>2, <1>4, SeqDef
<1> QED  BY <1>2, <1>3, <1>5
=============================================================================
