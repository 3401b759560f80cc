------------------------- MODULE ExecutablesProofs -------------------------
(***************************************************************************)
(* The layouts of Executables are sound for every size of the segments.    *)
(* PlaceOf says where in the file a format means each segment to be; the   *)
(* parts of Sound say that the offsets of the labels, the seeks of the     *)
(* writer and what the headers announce all agree with it.                 *)
(***************************************************************************)
EXTENDS Executables, TLAPS

(* The order o lists every segment of S that has opcodes, once.            *)
Lists(o, S, size) ==
  /\ o \in Seq(S)
  /\ \A s \in S : size[s] # 0 => \E k \in 1 .. Len(o) : o[k] = s
  /\ \A k \in 1 .. Len(o) : size[o[k]] # 0
  /\ \A j, k \in 1 .. Len(o) : o[j] = o[k] => j = k

(* The segments of o lie end to end from begin to end.                     *)
Chain(o, size, place, begin, end) ==
  /\ \A k \in 1 .. Len(o) :
       place[o[k]] = IF k = 1 THEN begin
                     ELSE place[o[k - 1]] + size[o[k - 1]]
  /\ end = IF Len(o) = 0 THEN begin
           ELSE place[o[Len(o)]] + size[o[Len(o)]]

(* Where the writer puts a segment is where the layout means it to be.     *)
Sought(L, size, place) ==
  /\ DOMAIN L.seeks \subseteq SegmentTypes
  /\ \A k \in 1 .. Len(L.order) :
       place[L.order[k]] =
         IF L.order[k] \in DOMAIN L.seeks THEN L.seeks[L.order[k]]
         ELSE IF k = 1 THEN L.written
         ELSE place[L.order[k - 1]] + size[L.order[k - 1]]

OffsetsTyped(L, size) ==
  /\ L.offsets \in [SegmentTypes -> Nat]
  /\ L.present \subseteq SegmentTypes /\ Defined(size) \subseteq L.present
  /\ L.written \in Nat /\ L.announced = L.written

SegmentsApart(L, size, place) ==
  \A s \in Defined(size) :
    /\ L.written <= place[s]
    /\ \A t \in Defined(size) :
         s = t \/ Apart(place[s], size[s], place[t], size[t])

(* The load takes in the range of the file.                                *)
Covers(load, from, length) ==
  /\ load.offset <= from
  /\ from + length <= load.offset + load.length

(* Whichever load takes in a segment maps it to its offset, and one does.  *)
SegmentsLoaded(L, size, place) ==
  \A s \in Defined(size) :
    /\ \E load \in L.loads : Covers(load, place[s], size[s])
    /\ \A load \in L.loads :
         Covers(load, place[s], size[s]) =>
           load.vaddr + place[s] - load.offset = L.offsets[s]

LoadsApart(L) ==
  \A l, m \in L.loads : l = m \/ Apart(l.vaddr, l.length, m.vaddr, m.length)

(* A load ends where a segment ends, at the latest.                        *)
LoadsFilled(L, size, place) ==
  \A load \in L.loads :
    load.length > 0 =>
      \E s \in Defined(size) : place[s] + size[s] >= load.offset + load.length

Paged(L) ==
  /\ \A load \in L.loads : (load.vaddr - load.offset) % Page = 0
  /\ L.entry = L.offsets[TEXT]

Sound(L, size, place) ==
  /\ place \in [SegmentTypes -> Nat]
  /\ Lists(L.order, SegmentTypes, size) /\ Sought(L, size, place)
  /\ OffsetsTyped(L, size) /\ SegmentsApart(L, size, place)
  /\ SegmentsLoaded(L, size, place)
  /\ LoadsApart(L) /\ LoadsFilled(L, size, place)

-----------------------------------------------------------------------------
LEMMA FourSegments ==
  /\ SegmentTypes = {TEXT, DATA, RODATA, BSS}
  /\ \A s \in SegmentTypes : s = TEXT \/ s = DATA \/ s = RODATA \/ s = BSS
  BY SMT DEF SegmentTypes, TEXT, DATA, RODATA, BSS

(* PAGE_ROUND_UP rounds up, to a multiple of the page, by less than one.   *)
LEMMA RoundUpFacts ==
  ASSUME NEW n \in Nat
  PROVE  /\ RoundUp(n) \in Nat
         /\ n <= RoundUp(n) /\ RoundUp(n) < n + Page
         /\ RoundUp(n) % Page = 0
  BY SMT DEF RoundUp, Page

LEMMA BeforeFacts ==
  ASSUME NEW size \in Sizes
  PROVE  /\ \A s \in SegmentTypes : size[s] \in Nat /\ Before(size, s) \in Nat
         /\ \A s \in SegmentTypes : Before(size, s) + size[s] <= Total(size)
         /\ \A s, t \in SegmentTypes :
              s < t => Before(size, s) + size[s] <= Before(size, t)
         /\ Total(size) \in Nat
         /\ Before(size, TEXT) = 0
         /\ Before(size, DATA) = size[TEXT]
         /\ Before(size, RODATA) = Before(size, DATA) + size[DATA]
         /\ Before(size, BSS) = Before(size, RODATA) + size[RODATA]
  BY SMT DEF Sizes, Before, Total, SegmentTypes, TEXT, DATA, RODATA, BSS

(* The last segment with opcodes ends where all end.                       *)
LEMMA LastSegment ==
  ASSUME NEW size \in Sizes, Total(size) # 0
  PROVE  \E s \in Defined(size) : Before(size, s) + size[s] = Total(size)
  BY SMT DEF Sizes, Before, Total, Defined, SegmentTypes, TEXT, DATA, RODATA, BSS

LEMMA CountFacts ==
  ASSUME NEW size \in Sizes
  PROVE  /\ \A S : Count(size, S) \in Nat
         /\ Count(size, {DATA, BSS}) = 0 <=> size[DATA] = 0 /\ size[BSS] = 0
         /\ size[TEXT] # 0 => Count(size, {TEXT, RODATA}) # 0
  BY SMT DEF Sizes, Count, Before, Total, SegmentTypes, TEXT, DATA, RODATA, BSS

-----------------------------------------------------------------------------
(* The loop over the segments adds the next one, if it has opcodes.        *)
LEMMA AddOne ==
  \A S : \A o \in Seq(S), s \in S : \A w : w = o \o << s >> =>
    /\ w \in Seq(S)
    /\ Len(o) \in Nat /\ Len(w) = Len(o) + 1
    /\ \A k \in 1 .. Len(o) : w[k] = o[k]
    /\ w[Len(o) + 1] = s
  BY SMT

LEMMA AddNone == \A S : \A o \in Seq(S) : o \o << >> = o
  BY SMT

LEMMA ListsStep ==
  ASSUME NEW size, NEW S, NEW s, s \notin S, NEW o, Lists(o, S, size)
  PROVE  Lists(o \o IfDefined(size, s), S \cup {s}, size)
<1> DEFINE T == S \cup {s}
<1>1. o \in Seq(S) /\ o \in Seq(T) /\ Len(o) \in Nat
      /\ \A k \in 1 .. Len(o) : o[k] \in S
  BY SMT DEF Lists
<1>2. CASE size[s] = 0
  <2>1. o \o IfDefined(size, s) = o  BY <1>1, <1>2, AddNone DEF IfDefined
  <2> QED  BY <1>1, <1>2, <2>1 DEF Lists
<1>3. CASE size[s] # 0
  <2> DEFINE w == o \o << s >>
  <2>1. o \o IfDefined(size, s) = w  BY <1>3 DEF IfDefined
  <2>2. /\ w \in Seq(T) /\ Len(w) = Len(o) + 1
        /\ \A k \in 1 .. Len(o) : w[k] = o[k]
        /\ w[Len(o) + 1] = s
    BY <1>1, AddOne
  <2> HIDE DEF w
  <2>3. \A k \in 1 .. Len(w) : k \in 1 .. Len(o) \/ k = Len(o) + 1
    BY SMT, <1>1, <2>2
  <2>4. \A k \in 1 .. Len(o) : k \in 1 .. Len(w)  BY SMT, <1>1, <2>2
  <2>5. Len(o) + 1 \in 1 .. Len(w)  BY SMT, <1>1, <2>2
  <2>6. \A t \in T : size[t] # 0 => \E k \in 1 .. Len(w) : w[k] = t
    BY <2>2, <2>4, <2>5 DEF Lists
  <2>7. \A k \in 1 .. Len(w) : size[w[k]] # 0  BY <1>3, <2>2, <2>3 DEF Lists
  <2>8. \A j, k \in 1 .. Len(w) : w[j] = w[k] => j = k
    BY <1>1, <2>2, <2>3 DEF Lists
  <2> QED  BY <2>1, <2>2, <2>6, <2>7, <2>8 DEF Lists
<1> QED  BY <1>2, <1>3

LEMMA ListsNone == ASSUME NEW size PROVE Lists(<< >>, {}, size)
  BY SMT DEF Lists

(* Four segments, in whichever order the loop takes them.                  *)
LEMMA ListsFour ==
  ASSUME NEW size, NEW a, NEW b, NEW c, NEW d,
         b # a, c \notin {a, b}, d \notin {a, b, c}
  PROVE  Lists(IfDefined(size, a) \o IfDefined(size, b) \o IfDefined(size, c)
                 \o IfDefined(size, d), {a, b, c, d}, size)
<1>1. Lists(<< >> \o IfDefined(size, a), {} \cup {a}, size)
  BY ListsNone, ListsStep
<1>2. << >> \o IfDefined(size, a) = IfDefined(size, a)
  BY SMT DEF IfDefined
<1>3. Lists(IfDefined(size, a), {a}, size)  BY <1>1, <1>2
<1>4. Lists(IfDefined(size, a) \o IfDefined(size, b), {a} \cup {b}, size)
  BY <1>3, ListsStep
<1>5. {a} \cup {b} = {a, b}  OBVIOUS
<1>6. Lists(IfDefined(size, a) \o IfDefined(size, b) \o IfDefined(size, c),
            {a, b} \cup {c}, size)
  BY <1>4, <1>5, ListsStep
<1>7. {a, b} \cup {c} = {a, b, c}  OBVIOUS
<1>8. Lists(IfDefined(size, a) \o IfDefined(size, b) \o IfDefined(size, c)
              \o IfDefined(size, d), {a, b, c} \cup {d}, size)
  BY <1>6, <1>7, ListsStep
<1>9. {a, b, c} \cup {d} = {a, b, c, d}  OBVIOUS
<1> QED  BY <1>8, <1>9

(* The next segment is laid where the ones before it end.                  *)
LEMMA ChainStep ==
  ASSUME NEW size \in Sizes, NEW place \in [SegmentTypes -> Nat],
         NEW s \in SegmentTypes, NEW o \in Seq(SegmentTypes),
         NEW begin \in Nat, Chain(o, size, place, begin, place[s])
  PROVE  Chain(o \o IfDefined(size, s), size, place, begin, place[s] + size[s])
<1>1. place[s] \in Nat /\ size[s] \in Nat  BY DEF Sizes
<1>2. CASE size[s] = 0
  <2>1. o \o IfDefined(size, s) = o  BY <1>2, AddNone DEF IfDefined
  <2>2. place[s] + size[s] = place[s]  BY SMT, <1>1, <1>2
  <2> QED  BY <2>1, <2>2
<1>3. CASE size[s] # 0
  <2> DEFINE w == o \o << s >>
  <2>1. o \o IfDefined(size, s) = w  BY <1>3 DEF IfDefined
  <2>2. /\ Len(o) \in Nat /\ Len(w) = Len(o) + 1
        /\ \A k \in 1 .. Len(o) : w[k] = o[k]
        /\ w[Len(o) + 1] = s
    BY AddOne
  <2> HIDE DEF w
  <2>3. ASSUME NEW k \in 1 .. Len(w)
        PROVE  place[w[k]] = IF k = 1 THEN begin
                             ELSE place[w[k - 1]] + size[w[k - 1]]
    <3>1. CASE k \in 1 .. Len(o)
      <4>1. k = 1 \/ k - 1 \in 1 .. Len(o)  BY SMT, <2>2, <3>1
      <4> QED  BY <2>2, <3>1, <4>1 DEF Chain
    <3>2. CASE k = Len(o) + 1
      <4>1. Len(o) = 0 <=> k = 1  BY SMT, <2>2, <3>2
      <4>2. k - 1 = Len(o) /\ (k # 1 => Len(o) \in 1 .. Len(o))
        BY SMT, <2>2, <3>2
      <4> QED  BY <2>2, <3>2, <4>1, <4>2 DEF Chain
    <3> QED  BY SMT, <2>2, <3>1, <3>2
  <2>4. Len(w) # 0 /\ place[w[Len(w)]] + size[w[Len(w)]] = place[s] + size[s]
    BY SMT, <2>2
  <2> QED  BY <2>1, <2>3, <2>4 DEF Chain
<1> QED  BY <1>2, <1>3

-----------------------------------------------------------------------------
(* The three formats that lay the segments end to end.                     *)
EndToEnd(size, place, begin) ==
  \A s \in SegmentTypes : place[s] = begin + Before(size, s)

LEMMA InOrderLists == ASSUME NEW size PROVE Lists(InOrder(size), SegmentTypes, size)
<1>1. /\ DATA # TEXT /\ RODATA \notin {TEXT, DATA}
      /\ BSS \notin {TEXT, DATA, RODATA}
  BY SMT DEF TEXT, DATA, RODATA, BSS
<1> QED  BY <1>1, ListsFour, FourSegments DEF InOrder

LEMMA InOrderChain ==
  ASSUME NEW size \in Sizes, NEW place \in [SegmentTypes -> Nat],
         NEW begin \in Nat, EndToEnd(size, place, begin)
  PROVE  \E end : Chain(InOrder(size), size, place, begin, end)
<1> DEFINE o1 == IfDefined(size, TEXT)
           o2 == o1 \o IfDefined(size, DATA)
           o3 == o2 \o IfDefined(size, RODATA)
           o4 == o3 \o IfDefined(size, BSS)
<1>1. /\ TEXT \in SegmentTypes /\ DATA \in SegmentTypes
      /\ RODATA \in SegmentTypes /\ BSS \in SegmentTypes
  BY FourSegments
<1>2. \A s \in SegmentTypes : IfDefined(size, s) \in Seq(SegmentTypes)
  BY SMT DEF IfDefined
<1>3. \A o, p \in Seq(SegmentTypes) : o \o p \in Seq(SegmentTypes)  BY SMT
<1>4. /\ o1 \in Seq(SegmentTypes) /\ o2 \in Seq(SegmentTypes)
      /\ o3 \in Seq(SegmentTypes)
  BY <1>1, <1>2, <1>3
<1>5. /\ place[TEXT] = begin
      /\ place[DATA] = place[TEXT] + size[TEXT]
      /\ place[RODATA] = place[DATA] + size[DATA]
      /\ place[BSS] = place[RODATA] + size[RODATA]
  <2>1. \A s \in SegmentTypes : size[s] \in Nat /\ Before(size, s) \in Nat
    BY BeforeFacts
  <2> QED  BY SMT, <1>1, <2>1, BeforeFacts DEF EndToEnd
<1>6. Chain(<< >>, size, place, begin, place[TEXT])
  BY SMT, <1>5 DEF Chain
<1>7. Chain(o1, size, place, begin, place[DATA])
  <2>1. << >> \o IfDefined(size, TEXT) = o1  BY SMT DEF IfDefined
  <2>2. << >> \in Seq(SegmentTypes)  BY SMT
  <2> QED  BY <1>1, <1>5, <1>6, <2>1, <2>2, ChainStep
<1>8. Chain(o2, size, place, begin, place[RODATA])
  BY <1>1, <1>4, <1>5, <1>7, ChainStep
<1>9. Chain(o3, size, place, begin, place[BSS])
  BY <1>1, <1>4, <1>5, <1>8, ChainStep
<1>10. Chain(o4, size, place, begin, place[BSS] + size[BSS])
  BY <1>1, <1>4, <1>9, ChainStep
<1> QED  BY <1>10 DEF InOrder

(* No two segments overlap, and none lies in front of the first.           *)
LEMMA EndToEndApart ==
  ASSUME NEW size \in Sizes, NEW place \in [SegmentTypes -> Nat],
         NEW begin \in Nat, EndToEnd(size, place, begin),
         NEW s \in SegmentTypes, NEW t \in SegmentTypes
  PROVE  /\ begin <= place[s]
         /\ place[s] + size[s] <= begin + Total(size)
         /\ s = t \/ Apart(place[s], size[s], place[t], size[t])
<1>1. /\ size[s] \in Nat /\ Before(size, s) \in Nat
      /\ size[t] \in Nat /\ Before(size, t) \in Nat /\ Total(size) \in Nat
      /\ Before(size, s) + size[s] <= Total(size)
      /\ s < t => Before(size, s) + size[s] <= Before(size, t)
      /\ t < s => Before(size, t) + size[t] <= Before(size, s)
  BY BeforeFacts
<1>2. place[s] = begin + Before(size, s) /\ place[t] = begin + Before(size, t)
  BY DEF EndToEnd
<1>3. s = t \/ s < t \/ t < s  BY SMT DEF SegmentTypes
<1> QED  BY SMT, <1>1, <1>2, <1>3 DEF Apart

LEMMA EndToEndParts ==
  ASSUME NEW size \in Sizes, Total(size) # 0, NEW L, NEW begin \in Nat,
         NEW place \in [SegmentTypes -> Nat], EndToEnd(size, place, begin),
         L.order = InOrder(size), L.written \in Nat, L.written <= begin,
         \/ L.seeks = NoSeek /\ L.written = begin
         \/ L.seeks = [s \in {InOrder(size)[1]} |-> begin]
  PROVE  /\ Lists(L.order, SegmentTypes, size)
         /\ Sought(L, size, place) /\ SegmentsApart(L, size, place)
<1>1. Lists(L.order, SegmentTypes, size)  BY InOrderLists
<1>2. Sought(L, size, place)
  <2>1. PICK end : Chain(L.order, size, place, begin, end)  BY InOrderChain
  <2>2. CASE L.seeks = NoSeek /\ L.written = begin
    <3>1. \A x : x \notin DOMAIN L.seeks  BY <2>2 DEF NoSeek
    <3> QED  BY <2>1, <2>2, <3>1 DEF Sought, Chain
  <2>3. CASE L.seeks = [s \in {InOrder(size)[1]} |-> begin]
    <3>1. DOMAIN L.seeks = {L.order[1]} /\ L.seeks[L.order[1]] = begin
      BY <2>3
    <3>2. L.order \in Seq(SegmentTypes)  BY <1>1 DEF Lists
    <3>3. 1 \in 1 .. Len(L.order)
      <4>1. PICK s \in SegmentTypes : size[s] # 0  BY LastSegment DEF Defined
      <4>2. PICK k \in 1 .. Len(L.order) : L.order[k] = s  BY <1>1, <4>1 DEF Lists
      <4> QED  BY SMT, <3>2, <4>2
    <3>4. L.order[1] \in SegmentTypes  BY SMT, <3>2, <3>3
    <3>5. \A k \in 1 .. Len(L.order) : L.order[k] = L.order[1] => k = 1
      BY <1>1, <3>3 DEF Lists
    <3> QED  BY <2>1, <3>1, <3>4, <3>5 DEF Sought, Chain
  <2> QED  BY <2>2, <2>3
<1>3. SegmentsApart(L, size, place)
  <2> SUFFICES ASSUME NEW s \in Defined(size), NEW t \in Defined(size)
               PROVE  /\ L.written <= place[s]
                      /\ s = t \/ Apart(place[s], size[s], place[t], size[t])
    BY DEF SegmentsApart
  <2>1. s \in SegmentTypes /\ t \in SegmentTypes  BY DEF Defined
  <2>2. begin <= place[s]  BY <2>1, EndToEndApart
  <2>3. L.written <= place[s]  BY SMT, <2>1, <2>2
  <2> QED  BY <2>1, <2>3, EndToEndApart
<1> QED  BY <1>1, <1>2, <1>3

(* One load for all the segments, which stand at the address zero.         *)
LEMMA OneLoad ==
  ASSUME NEW size \in Sizes, Total(size) # 0, NEW L, NEW begin \in Nat,
         NEW place \in [SegmentTypes -> Nat], EndToEnd(size, place, begin),
         L.loads = {Load(0, begin, Total(size))},
         \A s \in Defined(size) : L.offsets[s] = Before(size, s)
  PROVE  /\ SegmentsLoaded(L, size, place)
         /\ LoadsApart(L) /\ LoadsFilled(L, size, place)
<1>1. SegmentsLoaded(L, size, place)
  <2> SUFFICES ASSUME NEW s \in Defined(size)
               PROVE  /\ \E load \in L.loads : Covers(load, place[s], size[s])
                      /\ \A load \in L.loads :
                           load.vaddr + place[s] - load.offset = L.offsets[s]
    BY DEF SegmentsLoaded
  <2>1. s \in SegmentTypes  BY DEF Defined
  <2>2. Before(size, s) \in Nat  BY <2>1, BeforeFacts
  <2>3. begin <= place[s] /\ place[s] + size[s] <= begin + Total(size)
    BY <2>1, EndToEndApart
  <2>4. place[s] = begin + Before(size, s)  BY <2>1 DEF EndToEnd
  <2>5. 0 + place[s] - begin = Before(size, s)  BY SMT, <2>2, <2>4
  <2> QED  BY <2>3, <2>5 DEF Covers, Load
<1>2. LoadsApart(L)  BY DEF LoadsApart
<1>3. LoadsFilled(L, size, place)
  <2>1. PICK s \in Defined(size) : Before(size, s) + size[s] = Total(size)
    BY LastSegment
  <2>2. place[s] + size[s] >= begin + Total(size)
    <3>1. s \in SegmentTypes  BY DEF Defined
    <3>2. size[s] \in Nat /\ Before(size, s) \in Nat  BY <3>1, BeforeFacts
    <3>3. place[s] = begin + Before(size, s)  BY <3>1 DEF EndToEnd
    <3> QED  BY SMT, <2>1, <3>2, <3>3
  <2> QED  BY <2>2 DEF LoadsFilled, Load
<1> QED  BY <1>1, <1>2, <1>3

BinPlace(size)   == [s \in SegmentTypes |-> Before(size, s)]
FexecPlace(size) == [s \in SegmentTypes |-> FexecHeader + Before(size, s)]
CodeOffset(size) ==
  RoundUp(ElfHeader + ElfProgramHeader * Count(size, SegmentTypes))
ElfPlace(size)   == [s \in SegmentTypes |-> CodeOffset(size) + Before(size, s)]

(* bin: the file is the image.                                             *)
LEMMA BinSound ==
  ASSUME NEW size \in Sizes, Total(size) # 0
  PROVE  Sound(BinLayout(size), size, BinPlace(size))
<1> DEFINE L == BinLayout(size)
           place == BinPlace(size)
<1>1. /\ L.offsets = place /\ L.present = SegmentTypes
      /\ L.order = InOrder(size) /\ L.seeks = NoSeek
      /\ L.loads = {Load(0, 0, Total(size))}
      /\ L.announced = 0 /\ L.written = 0
  BY DEF BinLayout, BinPlace
<1>2. place \in [SegmentTypes -> Nat]  BY BeforeFacts DEF BinPlace
<1>3. EndToEnd(size, place, 0)  BY SMT, BeforeFacts DEF EndToEnd, BinPlace
<1>4. \A s \in Defined(size) : L.offsets[s] = Before(size, s)
  BY <1>1 DEF BinPlace, Defined
<1> HIDE DEF L, place
<1>5. 0 \in Nat /\ 0 <= 0  BY SMT
<1>6. /\ Lists(L.order, SegmentTypes, size)
      /\ Sought(L, size, place) /\ SegmentsApart(L, size, place)
  BY <1>1, <1>2, <1>3, <1>5, EndToEndParts
<1>7. /\ SegmentsLoaded(L, size, place)
      /\ LoadsApart(L) /\ LoadsFilled(L, size, place)
  BY <1>1, <1>2, <1>3, <1>4, <1>5, OneLoad
<1>8. OffsetsTyped(L, size)  BY <1>1, <1>2, <1>5 DEF OffsetsTyped, Defined
<1> QED  BY <1>2, <1>6, <1>7, <1>8 DEF Sound, L, place

(* fexec: the same behind the header, the offsets counted without it.      *)
LEMMA FexecSound ==
  ASSUME NEW size \in Sizes, Total(size) # 0
  PROVE  Sound(FexecLayout(size), size, FexecPlace(size))
<1> DEFINE L == FexecLayout(size)
           place == FexecPlace(size)
<1>1. /\ L.offsets = [s \in SegmentTypes |->
                        IF size[s] = 0 THEN 0 ELSE Before(size, s)]
      /\ L.present = Defined(size)
      /\ L.order = InOrder(size) /\ L.seeks = NoSeek
      /\ L.loads = {Load(0, FexecHeader, Total(size))}
      /\ L.announced = FexecHeader /\ L.written = FexecHeader
  BY DEF FexecLayout
<1>2. FexecHeader \in Nat /\ FexecHeader <= FexecHeader  BY SMT DEF FexecHeader
<1>3. place \in [SegmentTypes -> Nat]
  <2>1. \A s \in SegmentTypes : FexecHeader + Before(size, s) \in Nat
    BY SMT, <1>2, BeforeFacts
  <2> QED  BY <2>1 DEF FexecPlace
<1>4. EndToEnd(size, place, FexecHeader)  BY DEF EndToEnd, FexecPlace
<1>5. \A s \in Defined(size) : L.offsets[s] = Before(size, s)
  BY <1>1 DEF Defined
<1> HIDE DEF L, place
<1>6. /\ Lists(L.order, SegmentTypes, size)
      /\ Sought(L, size, place) /\ SegmentsApart(L, size, place)
  BY <1>1, <1>2, <1>3, <1>4, EndToEndParts
<1>7. /\ SegmentsLoaded(L, size, place)
      /\ LoadsApart(L) /\ LoadsFilled(L, size, place)
  BY <1>1, <1>2, <1>3, <1>4, <1>5, OneLoad
<1>8. OffsetsTyped(L, size)
  <2>1. \A s \in SegmentTypes : L.offsets[s] \in Nat
    BY SMT, <1>1, BeforeFacts
  <2> QED  BY <1>1, <1>2, <2>1 DEF OffsetsTyped, Defined
<1> QED  BY <1>3, <1>6, <1>7, <1>8 DEF Sound, L, place

(* elf: a load for each segment, and a whole number of pages between the   *)
(* file and the memory.                                                    *)
LEMMA ElfSound ==
  ASSUME NEW size \in Sizes, Total(size) # 0
  PROVE  Sound(ElfLayout(size), size, ElfPlace(size)) /\ Paged(ElfLayout(size))
<1> DEFINE L == ElfLayout(size)
           place == ElfPlace(size)
           code_offset == CodeOffset(size)
           headers == ElfHeader + ElfProgramHeader * Count(size, SegmentTypes)
<1>1. /\ L.offsets = [s \in SegmentTypes |->
                        IF size[s] = 0 THEN 0 ELSE ElfBase + Before(size, s)]
      /\ L.present = Defined(size)
      /\ L.order = InOrder(size)
      /\ L.seeks = [s \in {InOrder(size)[1]} |-> code_offset]
      /\ L.loads = {Load(L.offsets[s], code_offset + Before(size, s), size[s]) :
                      s \in Defined(size)}
      /\ L.announced = headers /\ L.written = headers
      /\ L.entry = L.offsets[TEXT]
  BY DEF ElfLayout, CodeOffset
<1>2. headers \in Nat
  <2>1. Count(size, SegmentTypes) \in Nat  BY CountFacts
  <2> QED  BY SMT, <2>1 DEF ElfHeader, ElfProgramHeader
<1>3. code_offset \in Nat /\ headers <= code_offset /\ code_offset % Page = 0
  BY <1>2, RoundUpFacts DEF CodeOffset
<1>4. EndToEnd(size, place, code_offset)  BY DEF EndToEnd, ElfPlace
<1>5. place \in [SegmentTypes -> Nat]
  <2>1. \A s \in SegmentTypes : code_offset + Before(size, s) \in Nat
    BY SMT, <1>3, BeforeFacts
  <2> QED  BY <2>1 DEF ElfPlace
<1> HIDE DEF L, place, code_offset, headers
<1>6. /\ Lists(L.order, SegmentTypes, size)
      /\ Sought(L, size, place) /\ SegmentsApart(L, size, place)
  BY <1>1, <1>2, <1>3, <1>4, <1>5, EndToEndParts
<1>7. ElfBase \in Nat  BY ElfBaseAssumption
<1>8. ASSUME NEW s \in Defined(size)
      PROVE  /\ s \in SegmentTypes
             /\ L.offsets[s] = ElfBase + Before(size, s)
             /\ place[s] = code_offset + Before(size, s)
             /\ size[s] \in Nat \ {0} /\ Before(size, s) \in Nat
             /\ place[s] \in Nat /\ L.offsets[s] \in Nat
  <2>1. s \in SegmentTypes /\ size[s] # 0  BY DEF Defined
  <2>2. size[s] \in Nat \ {0} /\ Before(size, s) \in Nat  BY <2>1, BeforeFacts
  <2>3. L.offsets[s] = ElfBase + Before(size, s)  BY <1>1, <2>1
  <2>4. L.offsets[s] \in Nat  BY SMT, <1>7, <2>2, <2>3
  <2> QED  BY <1>4, <1>5, <2>1, <2>2, <2>3, <2>4 DEF EndToEnd
<1>9. ASSUME NEW load \in L.loads
      PROVE  \E s \in Defined(size) :
               load.vaddr = L.offsets[s] /\ load.offset = place[s]
                 /\ load.length = size[s]
  <2>1. PICK s \in Defined(size) :
          load = Load(L.offsets[s], code_offset + Before(size, s), size[s])
    BY <1>1
  <2> QED  BY <1>8, <2>1 DEF Load
<1>10. ASSUME NEW s \in Defined(size)
       PROVE  /\ \E load \in L.loads : Covers(load, place[s], size[s])
              /\ \A load \in L.loads :
                   Covers(load, place[s], size[s]) =>
                     load.vaddr + place[s] - load.offset = L.offsets[s]
  <2>1. place[s] \in Nat /\ size[s] \in Nat \ {0} /\ L.offsets[s] \in Nat
    BY <1>8
  <2>2. \E load \in L.loads : Covers(load, place[s], size[s])
    <3> DEFINE own == Load(L.offsets[s], code_offset + Before(size, s), size[s])
    <3>1. own \in L.loads  BY <1>1
    <3>2. own.offset = place[s] /\ own.length = size[s]  BY <1>8 DEF Load
    <3>3. place[s] <= place[s] /\ place[s] + size[s] <= place[s] + size[s]
      BY SMT, <2>1
    <3> QED  BY <3>1, <3>2, <3>3 DEF Covers
  <2>3. ASSUME NEW load \in L.loads, Covers(load, place[s], size[s])
        PROVE  load.vaddr + place[s] - load.offset = L.offsets[s]
    <3>1. PICK t \in Defined(size) :
            load.vaddr = L.offsets[t] /\ load.offset = place[t]
              /\ load.length = size[t]
      BY <1>9
    <3>2. place[t] \in Nat /\ size[t] \in Nat  BY <1>8
    <3>3. s = t \/ Apart(place[s], size[s], place[t], size[t])
      BY <1>6 DEF SegmentsApart
    <3>4. s = t  BY SMT, <2>1, <2>3, <3>1, <3>2, <3>3 DEF Covers, Apart
    <3> QED  BY SMT, <2>1, <3>1, <3>4
  <2> QED  BY <2>2, <2>3
<1>11. SegmentsLoaded(L, size, place)  BY <1>10 DEF SegmentsLoaded
<1>12. LoadsApart(L)
  <2> SUFFICES ASSUME NEW l \in L.loads, NEW m \in L.loads
               PROVE  l = m \/ Apart(l.vaddr, l.length, m.vaddr, m.length)
    BY DEF LoadsApart
  <2>1. PICK s \in Defined(size) :
          l = Load(L.offsets[s], code_offset + Before(size, s), size[s])
    BY <1>1
  <2>2. PICK t \in Defined(size) :
          m = Load(L.offsets[t], code_offset + Before(size, t), size[t])
    BY <1>1
  <2>3. CASE s = t  BY <2>1, <2>2, <2>3
  <2>4. CASE s # t
    <3>1. l.vaddr = L.offsets[s] /\ l.length = size[s]  BY <2>1 DEF Load
    <3>2. m.vaddr = L.offsets[t] /\ m.length = size[t]  BY <2>2 DEF Load
    <3>3. Apart(place[s], size[s], place[t], size[t])
      BY <1>6, <2>4 DEF SegmentsApart
    <3>4. /\ L.offsets[s] = ElfBase + Before(size, s)
          /\ place[s] = code_offset + Before(size, s)
          /\ size[s] \in Nat /\ Before(size, s) \in Nat
      BY <1>8
    <3>5. /\ L.offsets[t] = ElfBase + Before(size, t)
          /\ place[t] = code_offset + Before(size, t)
          /\ size[t] \in Nat /\ Before(size, t) \in Nat
      BY <1>8
    <3>6. Apart(L.offsets[s], size[s], L.offsets[t], size[t])
      BY SMT, <1>3, <1>7, <3>3, <3>4, <3>5 DEF Apart
    <3> QED  BY <3>1, <3>2, <3>6
  <2> QED  BY <2>3, <2>4
<1>13. LoadsFilled(L, size, place)
  <2> SUFFICES ASSUME NEW load \in L.loads
               PROVE  \E s \in Defined(size) :
                        place[s] + size[s] >= load.offset + load.length
    BY DEF LoadsFilled
  <2>1. PICK s \in Defined(size) :
          load.offset = place[s] /\ load.length = size[s]
    BY <1>9
  <2>2. place[s] \in Nat /\ size[s] \in Nat  BY <1>8
  <2>3. place[s] + size[s] >= place[s] + size[s]  BY SMT, <2>2
  <2> QED  BY <2>1, <2>3
<1>14. OffsetsTyped(L, size)
  <2>1. \A s \in SegmentTypes : L.offsets[s] \in Nat
    BY SMT, <1>1, <1>7, BeforeFacts
  <2> QED  BY <1>1, <1>2, <2>1 DEF OffsetsTyped, Defined
<1>15. Paged(L)
  <2> SUFFICES ASSUME NEW load \in L.loads
               PROVE  (load.vaddr - load.offset) % Page = 0
    BY <1>1 DEF Paged
  <2>1. PICK s \in Defined(size) :
          load.vaddr = L.offsets[s] /\ load.offset = place[s]
    BY <1>9
  <2>2. /\ L.offsets[s] = ElfBase + Before(size, s)
        /\ place[s] = code_offset + Before(size, s) /\ Before(size, s) \in Nat
    BY <1>8
  <2>3. load.vaddr - load.offset = ElfBase - code_offset
    BY SMT, <1>3, <1>7, <2>1, <2>2
  <2>4. ElfBase % Page = 0  BY ElfBaseAssumption
  <2>5. (ElfBase - code_offset) % Page = 0
    BY SMT, <1>3, <1>7, <2>4 DEF Page
  <2> QED  BY <2>3, <2>5
<1>16. Sound(L, size, place)
  BY <1>5, <1>6, <1>11, <1>12, <1>13, <1>14 DEF Sound
<1> QED  BY <1>15, <1>16 DEF L, place

-----------------------------------------------------------------------------
(* macho64: the names that MachoLayout gives to its parts.                 *)
SizeOfCommands(size) ==
  MachoCommand + SegmentCommand(Count(size, {TEXT, RODATA}))
    + SegmentCommand(Count(size, {DATA, BSS})) + MachoThread
TextSize(size) ==
  RoundUp(MachoHeader + SizeOfCommands(size) + size[TEXT] + size[RODATA])
DataSize(size) == RoundUp(size[DATA] + size[BSS])

MachoPlace(size) ==
  [s \in SegmentTypes |->
     IF s = TEXT THEN TextSize(size) - (size[RODATA] + size[TEXT])
     ELSE IF s = RODATA THEN TextSize(size) - size[RODATA]
     ELSE IF s = DATA THEN TextSize(size) + DataSize(size) - (size[BSS] + size[DATA])
     ELSE TextSize(size) + DataSize(size) - size[BSS]]

LEMMA MachoParts ==
  ASSUME NEW size
  PROVE  LET L == MachoLayout(size)
         IN  /\ L.offsets = [s \in SegmentTypes |->
                               IF size[s] = 0 THEN 0
                               ELSE PageZero + MachoPlace(size)[s]]
             /\ L.seeks = [s \in Defined(size) |-> MachoPlace(size)[s]]
<1> DEFINE text_size == TextSize(size)
           data_size == DataSize(size)
           back == [s \in SegmentTypes |->
                      CASE s = TEXT   -> size[RODATA] + size[TEXT]
                        [] s = RODATA -> size[RODATA]
                        [] s = DATA   -> size[BSS] + size[DATA]
                        [] s = BSS    -> size[BSS]]
           place == [s \in SegmentTypes |->
                       IF s \in {TEXT, RODATA} THEN text_size - back[s]
                       ELSE text_size + data_size - back[s]]
<1>1. /\ MachoLayout(size).offsets =
            [s \in SegmentTypes |-> IF size[s] = 0 THEN 0 ELSE PageZero + place[s]]
      /\ MachoLayout(size).seeks = [s \in Defined(size) |-> place[s]]
  BY DEF MachoLayout, TextSize, DataSize, SizeOfCommands
<1> HIDE DEF text_size, data_size
<1>2. ASSUME NEW s \in SegmentTypes PROVE place[s] = MachoPlace(size)[s]
  <2>1. s = TEXT \/ s = DATA \/ s = RODATA \/ s = BSS  BY FourSegments
  <2> QED
    BY SMT, <2>1 DEF MachoPlace, text_size, data_size, SegmentTypes,
                     TEXT, DATA, RODATA, BSS
<1> HIDE DEF place
<1>3. [s \in SegmentTypes |-> IF size[s] = 0 THEN 0 ELSE PageZero + place[s]]
        = [s \in SegmentTypes |-> IF size[s] = 0 THEN 0
                                  ELSE PageZero + MachoPlace(size)[s]]
  BY <1>2
<1>4. [s \in Defined(size) |-> place[s]]
        = [s \in Defined(size) |-> MachoPlace(size)[s]]
  BY <1>2 DEF Defined
<1> QED  BY <1>1, <1>3, <1>4

(* The headers and the sections of __TEXT fit into it, and likewise __DATA *)
(* its sections.                                                           *)
LEMMA MachoSizes ==
  ASSUME NEW size \in Sizes
  PROVE  /\ SizeOfCommands(size) \in Nat
         /\ TextSize(size) \in Nat /\ DataSize(size) \in Nat
         /\ MachoHeader + SizeOfCommands(size) + size[TEXT] + size[RODATA]
              <= TextSize(size)
         /\ size[DATA] + size[BSS] <= DataSize(size)
         /\ TextSize(size) % Page = 0 /\ DataSize(size) % Page = 0
         /\ size[DATA] = 0 /\ size[BSS] = 0 => DataSize(size) = 0
<1>1. /\ size[TEXT] \in Nat /\ size[DATA] \in Nat
      /\ size[RODATA] \in Nat /\ size[BSS] \in Nat
  BY FourSegments DEF Sizes
<1>2. \A n \in Nat : SegmentCommand(n) \in Nat
  BY SMT DEF SegmentCommand, MachoCommand, MachoSection
<1>3. /\ SegmentCommand(Count(size, {TEXT, RODATA})) \in Nat
      /\ SegmentCommand(Count(size, {DATA, BSS})) \in Nat
  BY <1>2, CountFacts
<1>4. SizeOfCommands(size) \in Nat
  BY SMT, <1>3 DEF SizeOfCommands, MachoCommand, MachoThread
<1>5. MachoHeader + SizeOfCommands(size) + size[TEXT] + size[RODATA] \in Nat
  BY SMT, <1>1, <1>4 DEF MachoHeader
<1>6. size[DATA] + size[BSS] \in Nat  BY SMT, <1>1
<1>7. RoundUp(0) = 0  BY SMT DEF RoundUp, Page
<1> QED
  BY <1>4, <1>5, <1>6, <1>7, RoundUpFacts DEF TextSize, DataSize

(* Where the segments are, as inequalities between the parts.              *)
LEMMA MachoPlaces ==
  ASSUME NEW size \in Sizes, NEW place, place = MachoPlace(size)
  PROVE  /\ place \in [SegmentTypes -> Nat]
         /\ MachoHeader + SizeOfCommands(size) <= place[TEXT]
         /\ place[TEXT] + size[TEXT] = place[RODATA]
         /\ place[RODATA] + size[RODATA] = TextSize(size)
         /\ TextSize(size) <= place[DATA]
         /\ place[DATA] + size[DATA] = place[BSS]
         /\ place[BSS] + size[BSS] = TextSize(size) + DataSize(size)
<1>1. /\ size[TEXT] \in Nat /\ size[DATA] \in Nat
      /\ size[RODATA] \in Nat /\ size[BSS] \in Nat
  BY FourSegments DEF Sizes
<1>2. /\ place[TEXT] = TextSize(size) - (size[RODATA] + size[TEXT])
      /\ place[RODATA] = TextSize(size) - size[RODATA]
      /\ place[DATA] = TextSize(size) + DataSize(size) - (size[BSS] + size[DATA])
      /\ place[BSS] = TextSize(size) + DataSize(size) - size[BSS]
  BY SMT DEF MachoPlace, SegmentTypes, TEXT, DATA, RODATA, BSS
<1>3. /\ SizeOfCommands(size) \in Nat
      /\ TextSize(size) \in Nat /\ DataSize(size) \in Nat
      /\ MachoHeader + SizeOfCommands(size) + size[TEXT] + size[RODATA]
           <= TextSize(size)
      /\ size[DATA] + size[BSS] <= DataSize(size)
  BY MachoSizes
<1>4. /\ place[TEXT] \in Nat /\ place[DATA] \in Nat
      /\ place[RODATA] \in Nat /\ place[BSS] \in Nat
      /\ MachoHeader + SizeOfCommands(size) <= place[TEXT]
      /\ place[TEXT] + size[TEXT] = place[RODATA]
      /\ place[RODATA] + size[RODATA] = TextSize(size)
      /\ TextSize(size) <= place[DATA]
      /\ place[DATA] + size[DATA] = place[BSS]
      /\ place[BSS] + size[BSS] = TextSize(size) + DataSize(size)
  BY SMT, <1>1, <1>2, <1>3 DEF MachoHeader
<1>5. DOMAIN place = SegmentTypes
      /\ place = [s \in SegmentTypes |-> place[s]]
  BY DEF MachoPlace
<1>6. \A s \in SegmentTypes : place[s] \in Nat  BY <1>4, FourSegments
<1> QED  BY <1>4, <1>5, <1>6

LEMMA MachoSound ==
  ASSUME NEW size \in Sizes, size[TEXT] # 0
  PROVE  /\ Sound(MachoLayout(size), size, MachoPlace(size))
         /\ Paged(MachoLayout(size))
<1> DEFINE L == MachoLayout(size)
           place == MachoPlace(size)
           text_size == TextSize(size)
           data_size == DataSize(size)
           data_segments == Count(size, {DATA, BSS})
           load_text == Load(PageZero, 0, text_size)
           load_data == Load(PageZero + text_size, text_size, data_size)
<1>1. /\ L.offsets = [s \in SegmentTypes |->
                        IF size[s] = 0 THEN 0 ELSE PageZero + place[s]]
      /\ L.seeks = [s \in Defined(size) |-> place[s]]
  BY MachoParts
<1>2. /\ L.present = Defined(size)
      /\ L.order = IfDefined(size, TEXT) \o IfDefined(size, RODATA)
                     \o IfDefined(size, DATA) \o IfDefined(size, BSS)
      /\ L.loads = {load_text}
                     \cup (IF data_segments = 0 THEN {} ELSE {load_data})
      /\ L.entry = L.offsets[TEXT]
  BY DEF MachoLayout, TextSize, DataSize, SizeOfCommands
<1>3. L.announced = MachoHeader + SizeOfCommands(size)
      /\ L.written = MachoHeader + SizeOfCommands(size)
  <2>1. Count(size, {TEXT, RODATA}) \in Nat \ {0} /\ data_segments \in Nat
    BY CountFacts
  <2> QED
    BY SMT, <2>1 DEF MachoLayout, SizeOfCommands, SegmentCommand, MachoHeader,
                     MachoCommand, MachoSection, MachoThread
<1>4. /\ SizeOfCommands(size) \in Nat /\ text_size \in Nat /\ data_size \in Nat
      /\ text_size % Page = 0
      /\ size[DATA] = 0 /\ size[BSS] = 0 <=> data_segments = 0
  BY MachoSizes, CountFacts
<1>5. /\ place \in [SegmentTypes -> Nat]
      /\ MachoHeader + SizeOfCommands(size) <= place[TEXT]
      /\ place[TEXT] + size[TEXT] = place[RODATA]
      /\ place[RODATA] + size[RODATA] = text_size
      /\ text_size <= place[DATA]
      /\ place[DATA] + size[DATA] = place[BSS]
      /\ place[BSS] + size[BSS] = text_size + data_size
  BY MachoPlaces
<1> HIDE DEF L, place, text_size, data_size, data_segments
<1>6. L.written \in Nat  BY SMT, <1>3, <1>4 DEF MachoHeader
<1>7. \A s \in SegmentTypes : size[s] \in Nat /\ place[s] \in Nat
  BY <1>5 DEF Sizes
<1>8. PageZero \in Nat /\ PageZero % Page = 0  BY PageZeroAssumption
<1>9. /\ load_text.vaddr = PageZero /\ load_text.offset = 0
      /\ load_text.length = text_size
      /\ load_data.vaddr = PageZero + text_size /\ load_data.offset = text_size
      /\ load_data.length = data_size
  BY DEF Load
<1>10. \A l \in L.loads :
         l = load_text \/ (l = load_data /\ data_segments # 0)
  BY <1>2
<1> HIDE DEF load_text, load_data
<1>11. \A l \in L.loads : /\ l.vaddr \in Nat /\ l.offset \in Nat
                          /\ l.vaddr - l.offset = PageZero
  BY SMT, <1>4, <1>8, <1>9, <1>10
<1>12. ASSUME NEW s \in Defined(size)
       PROVE  /\ s = TEXT \/ s = DATA \/ s = RODATA \/ s = BSS
              /\ L.offsets[s] = PageZero + place[s]
              /\ size[s] \in Nat \ {0} /\ place[s] \in Nat
  BY <1>1, <1>7, FourSegments DEF Defined
<1>13. Lists(L.order, SegmentTypes, size)
  <2>1. /\ RODATA # TEXT /\ DATA \notin {TEXT, RODATA}
        /\ BSS \notin {TEXT, RODATA, DATA}
    BY SMT DEF TEXT, DATA, RODATA, BSS
  <2>2. {TEXT, RODATA, DATA, BSS} = SegmentTypes  BY FourSegments
  <2> QED  BY <1>2, <2>1, <2>2, ListsFour
<1>14. Sought(L, size, place)
  <2>1. \A k \in 1 .. Len(L.order) : L.order[k] \in Defined(size)
    <3>1. L.order \in Seq(SegmentTypes)  BY <1>13 DEF Lists
    <3>2. \A k \in 1 .. Len(L.order) : L.order[k] \in SegmentTypes
      BY SMT, <3>1
    <3> QED  BY <1>13, <3>2 DEF Lists, Defined
  <2>2. DOMAIN L.seeks \subseteq SegmentTypes  BY <1>1 DEF Defined
  <2> QED  BY <1>1, <2>1, <2>2 DEF Sought
<1>15. OffsetsTyped(L, size)
  <2>1. \A s \in SegmentTypes : L.offsets[s] \in Nat
    BY SMT, <1>1, <1>7, <1>8
  <2> QED  BY <1>1, <1>2, <1>3, <1>6, <2>1 DEF OffsetsTyped, Defined
<1>16. SegmentsApart(L, size, place)
  <2> SUFFICES ASSUME NEW s \in Defined(size), NEW t \in Defined(size)
               PROVE  /\ L.written <= place[s]
                      /\ s = t \/ Apart(place[s], size[s], place[t], size[t])
    BY DEF SegmentsApart
  <2>1. /\ size[TEXT] \in Nat /\ size[DATA] \in Nat
        /\ size[RODATA] \in Nat /\ size[BSS] \in Nat
        /\ place[TEXT] \in Nat /\ place[DATA] \in Nat
        /\ place[RODATA] \in Nat /\ place[BSS] \in Nat
    BY <1>7, FourSegments
  <2>2. /\ s = TEXT \/ s = DATA \/ s = RODATA \/ s = BSS
        /\ t = TEXT \/ t = DATA \/ t = RODATA \/ t = BSS
    BY <1>12
  <2> QED  BY SMT, <1>3, <1>4, <1>5, <1>6, <2>1, <2>2 DEF Apart
<1>17. SegmentsLoaded(L, size, place)
  <2> SUFFICES ASSUME NEW s \in Defined(size)
               PROVE  /\ \E load \in L.loads : Covers(load, place[s], size[s])
                      /\ \A load \in L.loads :
                           load.vaddr + place[s] - load.offset = L.offsets[s]
    BY DEF SegmentsLoaded
  <2>1. place[s] \in Nat /\ size[s] \in Nat \ {0}  BY <1>12
  <2>2. /\ size[TEXT] \in Nat /\ size[DATA] \in Nat
        /\ size[RODATA] \in Nat /\ size[BSS] \in Nat
        /\ place[TEXT] \in Nat /\ place[DATA] \in Nat
        /\ place[RODATA] \in Nat /\ place[BSS] \in Nat
    BY <1>7, FourSegments
  <2>5. ASSUME NEW load \in L.loads
        PROVE  load.vaddr + place[s] - load.offset = L.offsets[s]
    <3>1. /\ load.vaddr \in Nat /\ load.offset \in Nat
          /\ load.vaddr - load.offset = PageZero
      BY <1>11
    <3>2. L.offsets[s] = PageZero + place[s]  BY <1>12
    <3> QED  BY SMT, <1>8, <2>1, <3>1, <3>2
  <2>3. CASE s = TEXT \/ s = RODATA
    <3>1. Covers(load_text, place[s], size[s])
      BY SMT, <1>4, <1>5, <1>9, <2>2, <2>3 DEF Covers
    <3> QED  BY <1>2, <2>5, <3>1
  <2>4. CASE s = DATA \/ s = BSS
    <3>1. Covers(load_data, place[s], size[s])
      BY SMT, <1>4, <1>5, <1>9, <2>2, <2>4 DEF Covers
    <3>2. data_segments # 0  BY <1>4, <2>1, <2>4
    <3> QED  BY <1>2, <2>5, <3>1, <3>2
  <2> QED  BY <1>12, <2>3, <2>4
<1>18. LoadsApart(L)
  <2>1. Apart(load_text.vaddr, load_text.length, load_data.vaddr, load_data.length)
    BY SMT, <1>4, <1>8, <1>9 DEF Apart
  <2>2. Apart(load_data.vaddr, load_data.length, load_text.vaddr, load_text.length)
    BY <2>1 DEF Apart
  <2> QED  BY <1>10, <2>1, <2>2 DEF LoadsApart
<1>19. LoadsFilled(L, size, place)
  <2>1. \E s \in Defined(size) :
          place[s] + size[s] >= load_text.offset + load_text.length
    <3>1. CASE size[RODATA] # 0
      <4>1. RODATA \in Defined(size)  BY <3>1, FourSegments DEF Defined
      <4>2. place[RODATA] + size[RODATA] >= 0 + text_size  BY SMT, <1>4, <1>5
      <4> QED  BY <1>9, <4>1, <4>2
    <3>2. CASE size[RODATA] = 0
      <4>1. TEXT \in Defined(size)  BY FourSegments DEF Defined
      <4>2. size[RODATA] \in Nat /\ place[RODATA] \in Nat
        BY <1>7, FourSegments
      <4>3. place[TEXT] + size[TEXT] >= 0 + text_size
        BY SMT, <1>4, <1>5, <3>2, <4>2
      <4> QED  BY <1>9, <4>1, <4>3
    <3> QED  BY <3>1, <3>2
  <2>2. ASSUME data_segments # 0
        PROVE  \E s \in Defined(size) :
                 place[s] + size[s] >= load_data.offset + load_data.length
    <3>1. CASE size[BSS] # 0
      <4>1. BSS \in Defined(size)  BY <3>1, FourSegments DEF Defined
      <4>2. place[BSS] + size[BSS] >= text_size + data_size  BY SMT, <1>4, <1>5
      <4> QED  BY <1>9, <4>1, <4>2
    <3>2. CASE size[BSS] = 0
      <4>1. size[DATA] # 0  BY <1>4, <2>2, <3>2
      <4>2. DATA \in Defined(size)  BY <4>1, FourSegments DEF Defined
      <4>3. size[BSS] \in Nat /\ place[BSS] \in Nat  BY <1>7, FourSegments
      <4>4. place[DATA] + size[DATA] >= text_size + data_size
        BY SMT, <1>4, <1>5, <3>2, <4>3
      <4> QED  BY <1>9, <4>2, <4>4
    <3> QED  BY <3>1, <3>2
  <2> QED  BY <1>10, <2>1, <2>2 DEF LoadsFilled
<1>20. Paged(L)  BY <1>2, <1>8, <1>11 DEF Paged
<1>21. Sound(L, size, place)
  BY <1>5, <1>13, <1>14, <1>15, <1>16, <1>17, <1>18, <1>19 DEF Sound
<1> QED  BY <1>20, <1>21 DEF L, place

(* No format writes more than the four segments.                           *)
LEMMA OrderShort ==
  ASSUME NEW format \in Formats, NEW size
  PROVE  Len(LayoutOf(format, size).order) <= 4
<1>1. \A s \in SegmentTypes :
        IfDefined(size, s) \in Seq(SegmentTypes) /\ Len(IfDefined(size, s)) \in 0 .. 1
  BY SMT DEF IfDefined
<1>2. \A S : \A x, y, z, w \in Seq(S) :
        Len(x \o y \o z \o w) = Len(x) + Len(y) + Len(z) + Len(w)
  BY SMT
<1>3. \A i, j, k, l \in 0 .. 1 : i + j + k + l <= 4  BY SMT
<1>4. ASSUME NEW a \in SegmentTypes, NEW b \in SegmentTypes,
             NEW c \in SegmentTypes, NEW d \in SegmentTypes
      PROVE  Len(IfDefined(size, a) \o IfDefined(size, b) \o IfDefined(size, c)
                   \o IfDefined(size, d)) <= 4
  <2>1. Len(IfDefined(size, a) \o IfDefined(size, b) \o IfDefined(size, c)
              \o IfDefined(size, d))
          = Len(IfDefined(size, a)) + Len(IfDefined(size, b))
              + Len(IfDefined(size, c)) + Len(IfDefined(size, d))
    BY <1>1, <1>2
  <2> QED  BY <1>1, <1>3, <2>1
<1>5. \/ LayoutOf(format, size).order = InOrder(size)
      \/ LayoutOf(format, size).order =
           IfDefined(size, TEXT) \o IfDefined(size, RODATA)
             \o IfDefined(size, DATA) \o IfDefined(size, BSS)
  BY DEF Formats, LayoutOf, BinLayout, FexecLayout, ElfLayout, MachoLayout
<1> QED  BY <1>4, <1>5, FourSegments DEF InOrder

-----------------------------------------------------------------------------
PlaceOf(format, size) ==
  CASE format = "bin"     -> BinPlace(size)
    [] format = "fexec"   -> FexecPlace(size)
    [] format = "elf"     -> ElfPlace(size)
    [] format = "macho64" -> MachoPlace(size)

(* Every layout that a writer computes is sound: whatever the sizes of the *)
(* segments, the offsets the labels are counted from, the places the       *)
(* extents are written to and what the headers announce to the loader      *)
(* describe one and the same image.                                        *)
THEOREM LayoutsSound ==
  ASSUME NEW format \in Formats, NEW size \in Sizes, Defined(size) # {},
         Writable(format, size)
  PROVE  /\ Sound(LayoutOf(format, size), size, PlaceOf(format, size))
         /\ format \in {"elf", "macho64"} => Paged(LayoutOf(format, size))
<1>1. Total(size) # 0
  <2>1. PICK s \in SegmentTypes : size[s] # 0  BY DEF Defined
  <2>2. /\ size[s] \in Nat /\ Before(size, s) \in Nat /\ Total(size) \in Nat
        /\ Before(size, s) + size[s] <= Total(size)
    BY BeforeFacts
  <2> QED  BY SMT, <2>1, <2>2
<1>2. CASE format = "bin"
  <2>1. LayoutOf(format, size) = BinLayout(size) /\ PlaceOf(format, size) = BinPlace(size)
    BY <1>2 DEF LayoutOf, PlaceOf
  <2> QED  BY <1>1, <1>2, <2>1, BinSound
<1>3. CASE format = "fexec"
  <2>1. LayoutOf(format, size) = FexecLayout(size)
        /\ PlaceOf(format, size) = FexecPlace(size)
    BY <1>3 DEF LayoutOf, PlaceOf
  <2> QED  BY <1>1, <1>3, <2>1, FexecSound
<1>4. CASE format = "elf"
  <2>1. LayoutOf(format, size) = ElfLayout(size) /\ PlaceOf(format, size) = ElfPlace(size)
    BY <1>4 DEF LayoutOf, PlaceOf
  <2> QED  BY <1>1, <1>4, <2>1, ElfSound
<1>5. CASE format = "macho64"
  <2>1. LayoutOf(format, size) = MachoLayout(size)
        /\ PlaceOf(format, size) = MachoPlace(size)
    BY <1>5 DEF LayoutOf, PlaceOf
  <2>2. size[TEXT] # 0  BY <1>5 DEF Writable
  <2> QED  BY <2>1, <2>2, MachoSound
<1> QED  BY <1>2, <1>3, <1>4, <1>5 DEF Formats
=============================================================================
