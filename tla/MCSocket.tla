------------------------------ MODULE MCSocket ------------------------------
(* Socket with values TLC can enumerate.  The peers are interchangeable.   *)
EXTENDS Socket, TLC

Symmetry == Permutations(Endpoints)

=============================================================================
