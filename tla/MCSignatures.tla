----------------------------- MODULE MCSignatures ------------------------------
(***************************************************************************)
(* An instance of Signatures for TLC: every string of up to four           *)
(* characters, well-formed or not, and the signatures the library uses.    *)
(***************************************************************************)
EXTENDS Signatures, SequencesExt

MCChar == {"(", ")", "L", ";", "[", "V", "Z", "B", "I", "J", "?"}
MCInputs == SeqOf(MCChar \ {"J", "B"}, 4) \cup {c[1] : c \in LibraryCalls}
===============================================================================
