---------------------------- MODULE ScopedTable ----------------------------
(***************************************************************************)
(* The tables of DependentDictionary (src/src/dictionaries.cpp): a pair of *)
(* tables as in NameTable for each name the entries depend on.  Constant   *)
(* operators only.                                                         *)
(***************************************************************************)
EXTENDS NameTable

CONSTANT Scopes     \* the dependency names, in the order of std::map

ASSUME ScopesAssumption == Scopes \subseteq Nat

EmptyScopedRight == [s \in Scopes |-> EmptyRight]
EmptyScopedReverse == [s \in Scopes |-> EmptyReverse]

(* Fault: a name is looked for in every scope. *)
NameTakenInScope_Any(right, s, c, n) == \E t \in Scopes : NameTaken(right[t], c, n)

(* The check of add: another code of this scope has the name now. *)
NameTakenInScope(right, s, c, n) == NameTaken(right[s], c, n)

EmptyScopedTable == [right |-> EmptyScopedRight, reverse |-> EmptyScopedReverse]

(* DependentDictionary::add to table t, of a name that is not taken in s. *)
ScopedAddedTable(t, s, c, n) ==
    [right |-> [t.right EXCEPT ![s][c] = n],
     reverse |-> [t.reverse EXCEPT ![s] = Emplaced(@, Entry(n, c))]]

(* append gets to scope s: no scope before it has a clash. *)
Reached(right, added, s) ==
    \A t \in Scopes : t < s => Clashes(right[t], added[t]) = {}

ScopedClash(right, added) == \E s \in Scopes : Clashes(right[s], added[s]) # {}

(* What append leaves in right: all of added, or the part before a clash.  *)
ScopedAppended(right, added) ==
    [s \in Scopes |-> IF Reached(right, added, s)
                      THEN Appended(right[s], added[s])
                      ELSE right[s]]

ScopedAssigned(reverse, added) ==
    [s \in Scopes |-> Assigned(reverse[s], added[s])]

(* DependentDictionary::append of table added to table t: the names of     *)
(* added replace those of t, unless an entry clashed.                      *)
ScopedAppendedTable(t, added) ==
    [right |-> ScopedAppended(t.right, added.right),
     reverse |-> IF ScopedClash(t.right, added.right)
                 THEN t.reverse
                 ELSE ScopedAssigned(t.reverse, added.reverse)]

=============================================================================
