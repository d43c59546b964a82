---------------------------- MODULE MCSaveWriter ----------------------------
(* Saves are told apart by their mode and their rows only, and Saves is a  *)
(* set of model values: states that differ by a permutation of it are one. *)
EXTENDS SaveWriter

AnyOrder == Permutations(Saves)
=============================================================================
