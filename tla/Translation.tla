---------------------------- MODULE Translation ----------------------------
(***************************************************************************)
(* What a run of iasm promises about files: it touches no file but its     *)
(* output, which it empties before it fills it; it fails without having    *)
(* written to it; it succeeds only when it has written to it, or was only  *)
(* asked for its usage; and it comes to an end.  Its behaviour may become  *)
(* undefined before it has written, and nothing is promised from there on. *)
(***************************************************************************)

CONSTANTS
  Names,     \* of files
  NoFile,    \* the output as long as there is none
  Empty      \* the contents of a file that was just created

VARIABLES
  output,    \* the name of the output
  files,     \* the contents of the files there are, by name
  status     \* "started", "opened", "writing", "failed", "succeeded" or
             \* "undefined"

vars == << output, files, status >>

Init == status = "started" /\ output = NoFile

With(name, contents) ==
  [n \in DOMAIN files \cup {name} |-> IF n = name THEN contents ELSE files[n]]

(* Whatever the output was before, also when it was the source.            *)
Open ==
  /\ status = "started"
  /\ \E name \in Names : output' = name /\ files' = With(name, Empty)
  /\ status' = "opened"

Write ==
  /\ status \in {"opened", "writing"}
  /\ files' = With(output, files'[output])
  /\ status' = "writing"
  /\ UNCHANGED output

Fail ==
  /\ status \in {"started", "opened"}
  /\ status' = "failed"
  /\ UNCHANGED << output, files >>

(* Right away when all it was asked for is its usage.                      *)
Succeed ==
  /\ status \in {"started", "writing"}
  /\ status' = "succeeded"
  /\ UNCHANGED << output, files >>

BecomeUndefined ==
  /\ status = "opened"
  /\ status' = "undefined"
  /\ UNCHANGED << output, files >>

Next == Open \/ Write \/ Fail \/ Succeed \/ BecomeUndefined

(* All of it but that it comes to an end.                                 *)
Safe == Init /\ [][Next]_vars
Spec == Safe /\ <>(status \in {"failed", "succeeded", "undefined"})
=============================================================================
