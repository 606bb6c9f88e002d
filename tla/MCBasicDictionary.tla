-------------------------- MODULE MCBasicDictionary --------------------------
(* Two dictionaries with few codes and names.  Names and dictionaries are  *)
(* interchangeable, codes are not: append goes through them in order.      *)
EXTENDS BasicDictionary, TLC

Symmetry == Permutations(Objects) \cup Permutations(Names)

=============================================================================
