--------------------------- MODULE MCLineSplitter ---------------------------
(***************************************************************************)
(* LineSplitter on legal sources and on any others.  A legal source is put *)
(* together from statements, of which we know the parts, in one of the     *)
(* layouts that docs/README.md shows, so that what the splitter delivers   *)
(* can be compared with what was written.  The others are all the short    *)
(* ones, at the start of a line and behind three parts of a line, which    *)
(* leave two bytes of the buffer.                                          *)
(***************************************************************************)
EXTENDS LineSplitter, FiniteSets, SequencesExt

CONSTANT MaxLength   \* of the sources that are not put together

MCLetters == {"a", "b"}
Q == "DOUBLE_QUOTE"

(* A part: how it is written and what it says.  Spaces in brackets and     *)
(* escaping backslashes are not part of what it says.                      *)
Part(written, says) == [written |-> written, says |-> says]
Plain(s) == Part(s, s)

Mnemonics == {Plain(<< "a" >>), Plain(<< "a", "b" >>)}
Arguments ==
  { Plain(<< "b" >>),
    Plain(<< Q, "a", " ", ",", ";", "'", "b", Q >>),
    Plain(<< "'", Q, ";", "'" >>),
    Part(<< "[", "a", " ", "b", " ", "a", "]" >>,
         << "[", "a", "b", "a", "]" >>),
    Part(<< BACKSLASH, BACKSLASH, "a", BACKSLASH, Q >>,
         << BACKSLASH, "a", Q >>) }

Statement(parts, layout) == [parts |-> parts, layout |-> layout]
PartLists ==
  {<< m >> : m \in Mnemonics}
    \cup {<< m, x >> : m \in Mnemonics, x \in Arguments}
    \cup {<< Plain(<< "a" >>), x, y >> : x \in Arguments, y \in Arguments}
    \cup {<< Plain(<< "a" >>), x, x, x >> : x \in Arguments}

(* What is in front of the mnemonic, between operands, and at the end.     *)
Layouts ==
  { [before |-> b, between |-> i, behind |-> e] :
      b \in {<< >>, << " ", " " >>},
      i \in {<< "," >>, << ",", " " >>, << " " >>},
      e \in {<< >>, << " " >>, << " ", ";", Q, "a", ",", "]", ";" >>} }
ShortLayouts == {l \in Layouts : l.before = << >> /\ l.between = << ",", " " >>}

Between(k, layout) ==
  CASE k = 1 -> << >> [] k = 2 -> << " " >> [] OTHER -> layout.between
Written(parts, layout) ==
  layout.before
    \o FlattenSeq([k \in DOMAIN parts |->
                     Between(k, layout) \o parts[k].written])
    \o layout.behind \o << NEWLINE >>
Meant(parts) == [k \in DOMAIN parts |-> parts[k].says]

Line(t, says) == [text |-> t, says |-> says]
Statements(lists, layouts) ==
  {Line(Written(p, l), << Meant(p) >>) : p \in lists, l \in layouts}
Blanks == {Line(<< NEWLINE >>, << >>), Line(<< " ", NEWLINE >>, << >>),
           Line(<< ";", "a", "[", "'", NEWLINE >>, << >>)}

Short == Statements({p \in PartLists : Len(p) <= 2}, ShortLayouts)
Sources ==
  Statements(PartLists, Layouts)
    \cup {Line(x.text \o y.text, x.says \o y.says) :
            x \in Short \cup Blanks, y \in Short \cup Blanks}

LegalTexts == {s.text \o << NUL >> : s \in Sources}
Says == [t \in LegalTexts |->
           (CHOOSE s \in Sources : s.text \o << NUL >> = t).says]

(* One letter stands for all.                                              *)
Anything(length) == UNION {[1 .. n -> Char \ {"b"}] : n \in 0 .. length}
ThreeParts == [k \in 1 .. BUFFER_SIZE - 6 |-> "a"] \o << " ", "a", " ", "a", " " >>
OtherTexts ==
  {t \o << NEWLINE, NUL >> :
     t \in Anything(MaxLength) \cup {ThreeParts \o t : t \in Anything(MaxLength - 1)}}

MCTexts == LegalTexts \cup OtherTexts

Promise == INSTANCE SourceLines WITH delivered <- Delivered,
                                     failed <- errors_found

(* On a legal source the splitter does what SourceLines promises: every    *)
(* line in its turn, with the parts that were written, whatever the layout *)
(* and the lines before it; no error, and all lines in the end.            *)
ImplementsSourceLines == Promise!Spec

-----------------------------------------------------------------------------
(* One more layout that the documentation allows.                          *)
TightComments ==
  {s.text \o << NUL >> :
     s \in Statements({p \in PartLists : Len(p) = 1},
                      {[before |-> << >>, between |-> << >>,
                        behind |-> << ";", "b" >>]})}

(* docs/README.md: "Comments are defined by a semicolon", also one that    *)
(* follows the code without a space: no part of a line is in the comment.  *)
CommentsAreIgnored ==
  Done /\ text \in TightComments => \A k \in DOMAIN lines : Len(lines[k].starts) = 1

=============================================================================
