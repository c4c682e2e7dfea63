------------------------------- MODULE Files --------------------------------
(***************************************************************************)
(* What the two stores of the daemon (src/src/network.rs and               *)
(* src/src/controller.rs) need of a small file that tokio::fs::write()     *)
(* replaces: open(O_CREAT | O_TRUNC), then one write() at offset 0 through *)
(* the descriptor, which follows the file when it is renamed.  The file    *)
(* system returns no error; directories are not modelled here.             *)
(***************************************************************************)

CONSTANTS
  Absent,     \* no record / no file
  Empty,      \* content of a file that was just truncated
  Garbled     \* content that does not parse

\* An existing file is reused, the descriptors of other tasks included.
Truncated(file, t) ==
  [data |-> Empty, fds |-> {t} \cup (IF file = Absent THEN {} ELSE file.fds)]

HasOpen(file, t) == file # Absent /\ t \in file.fds

\* Over other content a write leaves that content's tail when it is shorter.
Overwrites(old, r) == IF old \in {Empty, r} THEN {r} ELSE {r, Garbled}

Wrote(file, t, d) == [data |-> d, fds |-> file.fds \ {t}]

\* The process died: its descriptors are gone.
Closed(file) == IF file = Absent THEN Absent ELSE [file EXCEPT !.fds = {}]
=============================================================================
