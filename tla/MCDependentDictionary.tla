------------------------ MODULE MCDependentDictionary ------------------------
(* Two dictionaries with two scopes.  Names are interchangeable, codes and *)
(* scopes are not: append goes through them in order.                      *)
EXTENDS DependentDictionary, TLC

Symmetry == Permutations(Objects) \cup Permutations(Names)

=============================================================================
