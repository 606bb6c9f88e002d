----------------------------- MODULE NameTable -----------------------------
(***************************************************************************)
(* The tables that BasicDictionary and DependentDictionary keep            *)
(* (src/src/dictionaries.cpp): right maps a code to its present name, and  *)
(* reverse maps every name a code ever had to a code.  Constant operators  *)
(* only; a std::map without the key is NoName or NoCode.                   *)
(***************************************************************************)
EXTENDS Naturals

CONSTANTS
    Codes,      \* attribute, vendor or value codes
    Names,      \* their names
    NoName,     \* a code right_dict_ does not hold
    NoCode      \* a name reverse_dict_ does not hold

ASSUME NameTableAssumption ==
    /\ Codes \subseteq Nat
    /\ NoName \notin Names
    /\ NoCode \notin Codes

Rights == [Codes -> Names \cup {NoName}]
Reverses == [Names -> Codes \cup {NoCode}]

EmptyRight == [c \in Codes |-> NoName]

(* Fault: a name that is not there reads as code 0. *)
EmptyReverse_Zero == [n \in Names |-> 0]

EmptyReverse == [n \in Names |-> NoCode]

(* Fault: only a code that is not yet in use is checked. *)
NameTaken_NewCode(right, c, n) ==
    right[c] = NoName /\ \E k \in Codes \ {c} : right[k] = n

(* The check of add: another code has this name now. *)
NameTaken(right, c, n) == \E k \in Codes \ {c} : right[k] = n

(* Fault: the last name wins. *)
Emplaced_Overwrite(reverse, added) ==
    [n \in Names |-> IF added[n] # NoCode THEN added[n] ELSE reverse[n]]

(* Fault: reverse_dict_ is not filled. *)
Emplaced_Nothing(reverse, added) == reverse

(* map::emplace of every entry of added: what is there stays. *)
Emplaced(reverse, added) ==
    [n \in Names |-> IF reverse[n] # NoCode THEN reverse[n] ELSE added[n]]

(* map::insert_or_assign of every entry of added. *)
Assigned(reverse, added) ==
    [n \in Names |-> IF added[n] # NoCode THEN added[n] ELSE reverse[n]]

Entry(n, c) == [EmptyReverse EXCEPT ![n] = c]

EmptyTable == [right |-> EmptyRight, reverse |-> EmptyReverse]

(* BasicDictionary::add to table t, of a name that is not taken. *)
AddedTable(t, c, n) ==
    [right |-> [t.right EXCEPT ![c] = n],
     reverse |-> Emplaced(t.reverse, Entry(n, c))]

(* append copies the entries of added in the order of their codes.  This   *)
(* is the table once those below c are copied.                             *)
CopiedBelow(right, added, c) ==
    [k \in Codes |-> IF k < c /\ added[k] # NoName THEN added[k] ELSE right[k]]

Copied(right, added) ==
    [k \in Codes |-> IF added[k] # NoName THEN added[k] ELSE right[k]]

(* The codes of added whose name another code has by then: append throws   *)
(* at the first of them.                                                   *)
Clashes(right, added) ==
    {c \in Codes : /\ added[c] # NoName
                   /\ NameTaken(CopiedBelow(right, added, c), c, added[c])}

IsFirst(c, S) == c \in S /\ \A k \in S : c <= k

(* What append leaves in right: all of added, or the part before a clash.  *)
Appended(right, added) ==
    IF Clashes(right, added) = {}
    THEN Copied(right, added)
    ELSE CopiedBelow(right, added,
                     CHOOSE c \in Codes : IsFirst(c, Clashes(right, added)))

(* BasicDictionary::append of table added to table t: reverse_dict_ is     *)
(* merged only when no entry clashed.                                      *)
AppendedTable(t, added) ==
    [right |-> Appended(t.right, added.right),
     reverse |-> IF Clashes(t.right, added.right) = {}
                 THEN Emplaced(t.reverse, added.reverse)
                 ELSE t.reverse]

(* No two codes have one name. *)
Injective(right) ==
    \A j, k \in Codes : right[j] = right[k] /\ right[j] # NoName => j = k

=============================================================================
