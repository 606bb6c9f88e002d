-------------------------- MODULE BasicDictionary --------------------------
(***************************************************************************)
(* radius_lite::BasicDictionary (src/src/dictionaries.cpp): dictionaries   *)
(* that are filled by add and merged into one another by append, as the    *)
(* loader does with the dictionaries of included files.  Both throw on a   *)
(* name another code has; append has by then copied what came before.      *)
(***************************************************************************)
EXTENDS NameTable

CONSTANT Objects    \* the dictionaries

VARIABLES
    right,      \* right_dict_ of each object
    reverse,    \* reverse_dict_ of each object
    torn        \* history: got names from an append that threw

vars == <<right, reverse, torn>>

Init ==
    /\ right = [d \in Objects |-> EmptyRight]
    /\ reverse = [d \in Objects |-> EmptyReverse]
    /\ torn = [d \in Objects |-> FALSE]

(* BasicDictionary::add that does not throw; one that does changes nothing. *)
Add(d, c, n) ==
    /\ ~NameTaken(right[d], c, n)
    /\ right' = [right EXCEPT ![d][c] = n]
    /\ reverse' = [reverse EXCEPT ![d] = Emplaced(@, Entry(n, c))]
    /\ UNCHANGED torn

(* Fault: reverse_dict_ is merged before the names are checked. *)
Append_ReverseFirst(d, e) ==
    /\ right' = [right EXCEPT ![d] = Appended(@, right[e])]
    /\ reverse' = [reverse EXCEPT ![d] = Emplaced(@, reverse[e])]
    /\ torn' = [torn EXCEPT ![d] = @ \/ torn[e] \/ Clashes(right[d], right[e]) # {}]

(* BasicDictionary::append(e) on d, to its end or to the exception. *)
Append(d, e) ==
    /\ right' = [right EXCEPT ![d] = Appended(@, right[e])]
    /\ \/ /\ Clashes(right[d], right[e]) = {}
          /\ reverse' = [reverse EXCEPT ![d] = Emplaced(@, reverse[e])]
          /\ torn' = [torn EXCEPT ![d] = @ \/ torn[e]]
       \/ /\ Clashes(right[d], right[e]) # {}
          /\ torn' = [torn EXCEPT ![d] = TRUE]
          /\ UNCHANGED reverse

Next ==
    \/ \E d \in Objects, c \in Codes, n \in Names : Add(d, c, n)
    \/ \E d, e \in Objects : Append(d, e)

Spec == Init /\ [][Next]_vars

-----------------------------------------------------------------------------
(* Properties.                                                             *)

(* Every table has its type. *)
TypeOK ==
    /\ right \in [Objects -> Rights]
    /\ reverse \in [Objects -> Reverses]
    /\ torn \in [Objects -> BOOLEAN]

(* name() never gives one name to two codes, not even after an append that *)
(* threw half way: every entry is checked against what was copied before.  *)
NamesUnique == \A d \in Objects : Injective(right[d])

(* A code that code() returns is a code that name() knows. *)
CodesKnown ==
    \A d \in Objects, n \in Names :
        reverse[d][n] # NoCode => right[d][reverse[d][n]] # NoName

(* The present name of a code can be looked up with code(), unless the     *)
(* name came from an append that threw: that one leaves names in           *)
(* right_dict_ that reverse_dict_ never gets.                              *)
NamesKnown ==
    \A d \in Objects, c \in Codes :
        right[d][c] # NoName /\ ~torn[d] => reverse[d][right[d][c]] # NoCode

(* A name that code() resolves keeps its code for good, whatever renames,  *)
(* later definitions of the name and merges follow.                        *)
AliasesKept ==
    [][\A d \in Objects, n \in Names :
          reverse[d][n] # NoCode => reverse'[d][n] = reverse[d][n]]_vars

=============================================================================
