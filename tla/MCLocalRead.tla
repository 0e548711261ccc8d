---------------------------- MODULE MCLocalRead ----------------------------
(***************************************************************************)
(* LocalRead for TLC: the readers are interchangeable.                     *)
(***************************************************************************)
EXTENDS LocalRead, TLC

ReaderSymmetry == Permutations(Readers)

=============================================================================
