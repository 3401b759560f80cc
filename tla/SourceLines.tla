---------------------------- MODULE SourceLines ----------------------------
(***************************************************************************)
(* What splitting a source into lines promises to the rest of the          *)
(* assembler: the lines of a legal source arrive one after the other, each *)
(* as the sequence of its parts, and then no more.  Says is what a legal   *)
(* source says, whatever its layout; for others nothing is promised.       *)
(***************************************************************************)
EXTENDS Naturals, Sequences

CONSTANTS
  Texts,      \* the sources
  Says        \* for each legal one its lines, each a sequence of parts

VARIABLES
  text,
  delivered,  \* the lines delivered so far
  failed      \* an error was reported

vars == << text, delivered, failed >>

Init ==
  /\ text \in Texts
  /\ delivered = << >>
  /\ failed = FALSE

Legal == text \in DOMAIN Says

Deliver ==
  /\ Legal
  /\ Len(delivered) < Len(Says[text])
  /\ delivered' = Append(delivered, Says[text][Len(delivered) + 1])
  /\ UNCHANGED << text, failed >>

Anything == ~Legal /\ UNCHANGED text

Spec == Init /\ [][Deliver \/ Anything]_vars /\ WF_vars(Deliver)
=============================================================================
