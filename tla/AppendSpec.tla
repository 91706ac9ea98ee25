------------------------------ MODULE AppendSpec -------------------------------
(***************************************************************************)
(* What openFileForAppend and completeAppend promise together: a client    *)
(* that appends replaces the file by the content it saw when it opened it, *)
(* followed by data of its own, in one step. The file is out of sight from *)
(* that step to the next one, for ever if the client fails in between.     *)
(*                                                                         *)
(* Two clients that append at the same time are not serialised: what a     *)
(* client saw may be older than the file it replaces.                      *)
(***************************************************************************)
EXTENDS Naturals, Sequences, SequencesExt

CONSTANTS Clients, Nothing   \* Nothing: the client has not opened the file

VARIABLES
  file,     \* the content of the file
  visible,  \* the file can be found under its path
  seen      \* seen[c]: the content client c appends to

vars == <<file, visible, seen>>

Init ==
  /\ visible = TRUE
  /\ seen = [c \in Clients |-> Nothing]

Open(c) ==
  /\ visible
  /\ seen' = [seen EXCEPT ![c] = file]
  /\ UNCHANGED <<file, visible>>

\* The append is over, or abandoned.
Forget(c) ==
  /\ seen' = [seen EXCEPT ![c] = Nothing]
  /\ UNCHANGED <<file, visible>>

Replace(c) ==
  /\ visible
  /\ seen[c] # Nothing
  /\ IsPrefix(seen[c], file')
  /\ \A k \in DOMAIN file' : k > Len(seen[c]) => file'[k] = c
  /\ visible' = FALSE
  /\ UNCHANGED seen

\* The client that replaced the file has nothing more to do with it.
Publish(c) ==
  /\ ~visible
  /\ visible' = TRUE
  /\ seen' = [seen EXCEPT ![c] = Nothing]
  /\ UNCHANGED file

Next == \E c \in Clients : Open(c) \/ Forget(c) \/ Replace(c) \/ Publish(c)

Spec == Init /\ [][Next]_vars
===============================================================================
