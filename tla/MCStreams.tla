------------------------------- MODULE MCStreams -------------------------------
(***************************************************************************)
(* An instance of Streams for TLC: every argument from below zero to       *)
(* beyond the buffer.                                                      *)
(***************************************************************************)
EXTENDS Streams

MCFile == <<1, 2, 3>>
MCData == <<7, 8, 9>>
MCLengths == -1..3
MCOffsets == -1..3
MCMaxLens == -1..4
MCValues == {0, 255, 257, -1}
===============================================================================
