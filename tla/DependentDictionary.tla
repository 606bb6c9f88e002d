------------------------ MODULE DependentDictionary ------------------------
(***************************************************************************)
(* radius_lite::DependentDictionary (src/src/dictionaries.cpp): one pair   *)
(* of tables for each name the entries depend on (the vendor of an         *)
(* attribute, the attribute of a value).  Names are unique within one      *)
(* scope.  append goes through the scopes in their order, and, unlike that *)
(* of BasicDictionary, lets the appended dictionary redefine names.        *)
(***************************************************************************)
EXTENDS ScopedTable

CONSTANT Objects    \* the dictionaries

VARIABLES
    right,      \* right_dict_ of each object, by scope
    reverse,    \* reverse_dict_ of each object, by scope
    torn        \* history: got names from an append that threw

vars == <<right, reverse, torn>>

Init ==
    /\ right = [d \in Objects |-> EmptyScopedRight]
    /\ reverse = [d \in Objects |-> EmptyScopedReverse]
    /\ torn = [d \in Objects |-> FALSE]

(* DependentDictionary::add that does not throw. *)
Add(d, s, c, n) ==
    /\ ~NameTakenInScope(right[d], s, c, n)
    /\ right' = [right EXCEPT ![d][s][c] = n]
    /\ reverse' = [reverse EXCEPT ![d][s] = Emplaced(@, Entry(n, c))]
    /\ UNCHANGED torn

(* Fault: reverse_dict_ is merged before the names are checked. *)
Append_ReverseFirst(d, e) ==
    /\ right' = [right EXCEPT ![d] = ScopedAppended(@, right[e])]
    /\ reverse' = [reverse EXCEPT ![d] = ScopedAssigned(@, reverse[e])]
    /\ torn' = [torn EXCEPT ![d] = TRUE]

(* DependentDictionary::append(e) on d, to its end or to the exception. *)
Append(d, e) ==
    /\ right' = [right EXCEPT ![d] = ScopedAppended(@, right[e])]
    /\ \/ /\ ~ScopedClash(right[d], right[e])
          /\ reverse' = [reverse EXCEPT ![d] = ScopedAssigned(@, reverse[e])]
          /\ torn' = [torn EXCEPT ![d] = @ \/ torn[e]]
       \/ /\ ScopedClash(right[d], right[e])
          /\ torn' = [torn EXCEPT ![d] = TRUE]
          /\ UNCHANGED reverse

Next ==
    \/ \E d \in Objects, s \in Scopes, c \in Codes, n \in Names : Add(d, s, c, n)
    \/ \E d, e \in Objects : Append(d, e)

Spec == Init /\ [][Next]_vars

-----------------------------------------------------------------------------
(* Properties.                                                             *)

(* Every table has its type. *)
TypeOK ==
    /\ right \in [Objects -> [Scopes -> Rights]]
    /\ reverse \in [Objects -> [Scopes -> Reverses]]
    /\ torn \in [Objects -> BOOLEAN]

(* Within a scope name() never gives one name to two codes, not even after *)
(* an append that threw in some other scope or half way through this one.  *)
NamesUnique == \A d \in Objects, s \in Scopes : Injective(right[d][s])

(* A code that code() returns is a code that name() knows in that scope. *)
CodesKnown ==
    \A d \in Objects, s \in Scopes, n \in Names :
        reverse[d][s][n] # NoCode => right[d][s][reverse[d][s][n]] # NoName

(* The present name of a code can be looked up with code(), unless the     *)
(* name came from an append that threw.                                    *)
NamesKnown ==
    \A d \in Objects, s \in Scopes, c \in Codes :
        right[d][s][c] # NoName /\ ~torn[d]
            => reverse[d][s][right[d][s][c]] # NoCode

(* A name keeps its code until an append redefines it with the code the    *)
(* appended dictionary has for it; add never takes a name from its code.   *)
AliasesReplacedByAppend ==
    [][\A d \in Objects, s \in Scopes, n \in Names :
          reverse[d][s][n] # NoCode /\ reverse'[d][s][n] # reverse[d][s][n]
              => \E e \in Objects \ {d} : reverse'[d][s][n] = reverse[e][s][n]]_vars

=============================================================================
