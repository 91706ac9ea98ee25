------------------------------ MODULE StreamSpec -------------------------------
(***************************************************************************)
(* What the streams promise to an application: a reader has a cursor in a  *)
(* file, and a read hands it the bytes that follow; what a writer has      *)
(* written is never taken back.                                            *)
(***************************************************************************)
EXTENDS Integers, Sequences, SequencesExt

CONSTANT File     \* the bytes of the file that is read

VARIABLES
  cursor,    \* bytes of the file before the reader
  got,       \* bytes the last call handed over
  written    \* bytes Alluxio has accepted from the writer

vars == <<cursor, got, written>>

Init == cursor = 0 /\ got = <<>> /\ written = <<>>

Read ==
  /\ cursor' \in cursor..Len(File)
  /\ got' = SubSeq(File, cursor + 1, cursor')
  /\ UNCHANGED written

\* seek, skip, and calls that hand nothing over.
Move ==
  /\ cursor' \in 0..Len(File)
  /\ got' = <<>>
  /\ UNCHANGED written

Write ==
  /\ IsPrefix(written, written')
  /\ UNCHANGED <<cursor, got>>

Next == Read \/ Move \/ Write

Spec == Init /\ [][Next]_vars
===============================================================================
