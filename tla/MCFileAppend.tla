----------------------------- MODULE MCFileAppend ------------------------------
(***************************************************************************)
(* Instances of FileAppend for TLC: the environments of each, and the      *)
(* symmetry of inodes and clients.                                         *)
(***************************************************************************)
EXTENDS FileAppend, TLC

Environment(faults, lostReplies, shortReads, retry) ==
  [faults |-> faults, lostReplies |-> lostReplies, shortReads |-> shortReads, retry |-> retry]

Retried == Environment(TRUE, FALSE, FALSE, TRUE)
Lossy == Environment(TRUE, TRUE, FALSE, FALSE)
Short == Environment(TRUE, TRUE, TRUE, FALSE)
Quiet == Environment(FALSE, FALSE, FALSE, FALSE)

FaultyEnvironments == {Retried, Lossy}
EveryEnvironment == {Quiet, Retried, Lossy, Short}

Symmetry == Permutations(Inodes) \cup Permutations(Clients)
===============================================================================
