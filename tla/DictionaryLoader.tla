-------------------------- MODULE DictionaryLoader --------------------------
(***************************************************************************)
(* Loading dictionary files (the constructor of Dictionaries,              *)
(* src/src/dictionaries.cpp).  A file is read line by line into an object  *)
(* of its own; $INCLUDE reads another file to its end first and appends    *)
(* it.  The application keeps a dictionary, appends loaded ones to it and  *)
(* calls resolve().  The contents of the files are chosen while they are   *)
(* read: what no line of a behaviour has read yet is open.                 *)
(***************************************************************************)
EXTENDS Dictionaries, Sequences

CONSTANTS
    Menu,           \* the lines that define something in the files
    MaxLines,       \* bound: lines read in all files together
    MaxDepth        \* bound: files open at the same time

ASSUME LoaderAssumption ==
    /\ Menu \subseteq VendorLines \cup
            UNION {AttributeLines(v) \cup ValueLines(v) : v \in VendorNames \cup {NoVendor}}
    /\ MaxLines \in Nat /\ MaxDepth \in Nat \ {0}

VARIABLES
    stack,      \* the constructors that run, the included file's last
    app,        \* the application's dictionary
    resolved,   \* history: resolve() succeeded and nothing was added since
    refused,    \* history: the lines that took part in the last exception
    lines       \* lines read

vars == <<stack, app, resolved, refused, lines>>

(* A dictionary and, as history, the lines it was made from. *)
Made == [dict |-> EmptyDictionaries, lines |-> {}]

(* A constructor: its object and its variable vendorName. *)
Opened == [object |-> Made, vendor |-> NoVendor]

Top == stack[Len(stack)]
Below == SubSeq(stack, 1, Len(stack) - 1)

Init ==
    /\ stack = <<>> /\ app = Made /\ resolved = FALSE
    /\ refused = {} /\ lines = 0

(* An exception leaves all constructors: their objects are gone. *)
Abandon(why) ==
    /\ stack' = <<>> /\ refused' = why
    /\ UNCHANGED <<app, resolved>>

Open ==
    /\ stack = <<>> /\ lines < MaxLines
    /\ stack' = <<Opened>> /\ refused' = {}
    /\ UNCHANGED <<app, resolved, lines>>

NextLine == stack # <<>> /\ lines < MaxLines /\ lines' = lines + 1

(* A line ATTRIBUTE, VALUE or VENDOR. *)
ReadLine ==
    /\ NextLine
    /\ \E line \in Menu \cap (AttributeLines(Top.vendor) \cup ValueLines(Top.vendor)
                              \cup VendorLines) :
         LET object == Top.object
         IN  \/ LineTaken(object.dict, line) /\ Abandon(object.lines \cup {line})
             \/ /\ ~LineTaken(object.dict, line)
                /\ stack' = Append(Below, [Top EXCEPT !.object =
                                [dict |-> WithLine(object.dict, line),
                                 lines |-> object.lines \cup {line}]])
                /\ UNCHANGED <<app, resolved, refused>>

ReadBeginVendor ==
    /\ NextLine
    /\ \E v \in VendorNames : stack' = Append(Below, [Top EXCEPT !.vendor = v])
    /\ UNCHANGED <<app, resolved, refused>>

ReadEndVendor ==
    /\ NextLine /\ Top.vendor # NoVendor
    /\ stack' = Append(Below, [Top EXCEPT !.vendor = NoVendor])
    /\ UNCHANGED <<app, resolved, refused>>

(* $INCLUDE of a file that can be opened. *)
ReadInclude ==
    /\ NextLine /\ Len(stack) < MaxDepth
    /\ stack' = Append(stack, Opened)
    /\ UNCHANGED <<app, resolved, refused>>

(* $INCLUDE of a file that cannot be opened, or a number std::stoul does   *)
(* not take.                                                               *)
ReadUnreadable == NextLine /\ Abandon({})

(* The end of an included file: its object is appended to the including    *)
(* file's.                                                                 *)
EndOfIncluded ==
    /\ Len(stack) > 1
    /\ LET outer == Below[Len(Below)]
           all == outer.object.lines \cup Top.object.lines
       IN  \/ /\ AppendThrows(outer.object.dict, Top.object.dict)
              /\ Abandon(all)
           \/ /\ ~AppendThrows(outer.object.dict, Top.object.dict)
              /\ stack' = [Below EXCEPT ![Len(Below)].object =
                            [dict |-> AppendedDictionaries(@.dict, Top.object.dict),
                             lines |-> all]]
              /\ UNCHANGED <<app, resolved, refused>>
    /\ UNCHANGED lines

(* The end of the file the application named: the dictionary is its own.   *)
(* One that has a dictionary already appends the next.                     *)
Construct ==
    /\ Len(stack) = 1 /\ app = Made
    /\ app' = Top.object /\ resolved' = FALSE /\ stack' = <<>>
    /\ UNCHANGED <<refused, lines>>

(* The application appends the loaded dictionary to the one it has, to the *)
(* end or to an exception.                                                 *)
AppendLoaded ==
    /\ Len(stack) = 1 /\ app # Made
    /\ app' = [dict |-> AppendedDictionaries(app.dict, Top.object.dict),
               lines |-> app.lines \cup Top.object.lines]
    /\ resolved' = FALSE /\ stack' = <<>>
    /\ refused' = IF AppendThrows(app.dict, Top.object.dict) THEN app'.lines ELSE {}
    /\ UNCHANGED lines

(* resolve(): an entry whose vendor is not known throws, after any of the  *)
(* others, and the map is then not cleared.                                *)
Resolve ==
    /\ stack = <<>>
    /\ LET dict == app.dict
           known == {u \in Unresolved(dict) : VendorKnown(dict, u)}
       IN  \/ /\ known = Unresolved(dict)
              /\ \E types \in TypesAfter(dict, known) :
                    app' = [app EXCEPT !.dict.types = types,
                                       !.dict.unresolved = EmptyDictionaries.unresolved]
              /\ resolved' = TRUE
           \/ /\ known # Unresolved(dict)
              /\ \E done \in SUBSET known : \E types \in TypesAfter(dict, done) :
                    app' = [app EXCEPT !.dict.types = types]
              /\ UNCHANGED resolved
    /\ UNCHANGED <<stack, refused, lines>>

Next ==
    \/ Open \/ ReadLine \/ ReadBeginVendor \/ ReadEndVendor
    \/ ReadInclude \/ ReadUnreadable \/ EndOfIncluded
    \/ Construct \/ AppendLoaded \/ Resolve

Spec == Init /\ [][Next]_vars

-----------------------------------------------------------------------------
(* What the lines mean, whatever files they are in and in what order.      *)
Of(S, kind) == {l \in S : l.kind = kind}
AttributesOf(S, vendor) == {l \in Of(S, "ATTRIBUTE") : l.vendor = vendor}
ValuesOf(S, ofVendor, attribute) ==
    {l \in Of(S, "VALUE") : l.ofVendor = ofVendor /\ l.attribute = attribute}
TypesOf(S, key) ==
    {l.type : l \in {m \in Of(S, "ATTRIBUTE") :
        /\ ByteOf(m.code) = key[1]
        /\ \/ m.vendor = NoVendor /\ key[2] = 0
           \/ \E v \in Of(S, "VENDOR") : v.name = m.vendor /\ v.code = key[2]}}

OneToOne(S) == \A l, m \in S : l.name = m.name <=> l.code = m.code

(* No two lines contradict each other: names and codes are one to one      *)
(* within a vendor, within an attribute and among the vendors; codes with  *)
(* one low byte have one type.                                             *)
Consistent(S) ==
    /\ \A v \in VendorNames \cup {NoVendor} : OneToOne(AttributesOf(S, v))
    /\ \A b \in BOOLEAN, a \in AttrNames : OneToOne(ValuesOf(S, b, a))
    /\ OneToOne(Of(S, "VENDOR"))
    /\ \A k \in Keys : \A t, u \in TypesOf(S, k) : t = u

RightOf(S, codes) ==
    [c \in codes |-> IF \E l \in S : l.code = c
                     THEN (CHOOSE l \in S : l.code = c).name ELSE NoName]
ReverseOf(S, names) ==
    [n \in names |-> IF \E l \in S : l.name = n
                     THEN (CHOOSE l \in S : l.name = n).code ELSE NoCode]
TableOf(S, codes, names) ==
    [right |-> RightOf(S, codes), reverse |-> ReverseOf(S, names)]
ValueTableOf(S, ofVendor) ==
    [right |-> [a \in AttrNames |-> RightOf(ValuesOf(S, ofVendor, a), ValueCodes)],
     reverse |-> [a \in AttrNames |-> ReverseOf(ValuesOf(S, ofVendor, a), ValueNames)]]

Meaning(S) ==
    [attributes |-> TableOf(AttributesOf(S, NoVendor), AttrCodes, AttrNames),
     vendorNames |-> TableOf(Of(S, "VENDOR"), VendorIds, VendorNames),
     attributeValues |-> ValueTableOf(S, FALSE),
     vendorAttributes |->
        [right |-> [v \in VendorNames |-> RightOf(AttributesOf(S, v), AttrCodes)],
         reverse |-> [v \in VendorNames |-> ReverseOf(AttributesOf(S, v), AttrNames)]],
     vendorAttributeValues |-> ValueTableOf(S, TRUE),
     types |-> [k \in Keys |-> IF TypesOf(S, k) = {} THEN NoType
                               ELSE CHOOSE t \in TypesOf(S, k) : TRUE],
     unresolved |-> EmptyDictionaries.unresolved]

-----------------------------------------------------------------------------
(* Properties.                                                             *)

(* The dictionaries of the application and of every file have their types. *)
TypeOK ==
    /\ IsDictionaries(app.dict)
    /\ \A i \in DOMAIN stack : IsDictionaries(stack[i].object.dict)
    /\ resolved \in BOOLEAN
    /\ lines \in 0 .. MaxLines

(* Once resolve() has succeeded, a dictionary whose lines do not contradict *)
(* each other says what they say, whatever the order of the lines, whatever *)
(* file each is in, and even if an earlier resolve() threw half way.       *)
LoadedAsWritten ==
    resolved /\ Consistent(app.lines) => app.dict = Meaning(app.lines)

(* An add or an append throws only over lines that contradict each other:  *)
(* the same names in other vendors and other attributes do no harm.        *)
OnlyConflictsRefused == refused # {} => ~Consistent(refused)

(* A type that is stored for an attribute comes from an ATTRIBUTE line of  *)
(* that code and that vendor, also after an append or a resolve() that     *)
(* threw; an attribute of a vendor never passes for one of no vendor,      *)
(* unless the vendor's number is 0.                                        *)
TypesHaveSource ==
    \A k \in Keys : app.dict.types[k] # NoType => app.dict.types[k] \in TypesOf(app.lines, k)

=============================================================================
