-------------------------- MODULE PacketOwnership --------------------------
(***************************************************************************)
(* Who deletes the attributes of a packet (src/src/packet.cpp).  A Packet  *)
(* holds pointers to attributes made with new; its destructor deletes      *)
(* them, its copy constructor clones them, and its copy assignment, which  *)
(* the class does not declare, copies the pointers.  Vendor attributes are *)
(* held by value and have no owner to be wrong about.                      *)
(*                                                                         *)
(* An attribute object is the number of its allocation, so that memory     *)
(* that is used again is another object.                                   *)
(***************************************************************************)
EXTENDS Naturals, Sequences, Functions

CONSTANTS
    Packets,        \* places of Packet objects
    Values,         \* contents of attributes
    MaxObjects,     \* bound: attributes ever made
    MaxAttributes   \* bound: attributes of one parsed packet

ASSUME OwnershipAssumption == MaxObjects \in Nat /\ MaxAttributes \in Nat

VARIABLES
    content,    \* the contents of all attributes ever made, in their order
    alive,      \* those not deleted
    live,       \* the packets that exist
    held,       \* m_attributes of every packet
    loose,      \* attributes the application made and no packet has yet
    undefined,  \* a deleted attribute was used: undefined behaviour
    meant,      \* history: what a packet was made from
    tainted,    \* history: packets that took part in an assignment
    strays      \* history: attributes an exception or an assignment left

vars == <<content, alive, live, held, loose, undefined, meant, tainted, strays>>

Init ==
    /\ content = <<>> /\ alive = {} /\ live = {} /\ loose = <<>>
    /\ held = [p \in Packets |-> <<>>] /\ meant = [p \in Packets |-> <<>>]
    /\ undefined = FALSE /\ tainted = {} /\ strays = {}

(* The n attributes made next. *)
Fresh(n) == [i \in 1 .. n |-> Len(content) + i]

(* Attributes of these contents are made with new. *)
Make(values) ==
    /\ Len(content) + Len(values) <= MaxObjects
    /\ content' = content \o values
    /\ alive' = alive \cup Range(Fresh(Len(values)))

ContentOf(objects) == [i \in DOMAIN objects |-> content[objects[i]]]

(* What the application has made is in its vector. *)
NewAttribute ==
    /\ ~undefined
    /\ \E v \in Values : Make(<<v>>)
    /\ loose' = loose \o Fresh(1)
    /\ UNCHANGED <<live, held, undefined, meant, tainted, strays>>

(* The constructors for requests and responses take the pointers over. *)
Build(p) ==
    /\ ~undefined /\ p \notin live
    /\ live' = live \cup {p}
    /\ held' = [held EXCEPT ![p] = loose]
    /\ meant' = [meant EXCEPT ![p] = ContentOf(loose)]
    /\ loose' = <<>>
    /\ UNCHANGED <<content, alive, undefined, tainted, strays>>

(* An exception before that, as for a name the dictionary does not know. *)
ApplicationThrows ==
    /\ ~undefined /\ loose # <<>>
    /\ strays' = strays \cup Range(loose)
    /\ loose' = <<>>
    /\ UNCHANGED <<content, alive, live, held, undefined, meant, tainted>>

AttributeLists == UNION {[1 .. n -> Values] : n \in 0 .. MaxAttributes}

Parse(p) ==
    /\ ~undefined /\ p \notin live
    /\ \E values \in AttributeLists :
          /\ Make(values)
          /\ held' = [held EXCEPT ![p] = Fresh(Len(values))]
          /\ meant' = [meant EXCEPT ![p] = values]
    /\ live' = live \cup {p}
    /\ UNCHANGED <<loose, undefined, tainted, strays>>

(* The parsing constructor throws: there is no packet to destroy, and      *)
(* nothing else deletes the attributes made so far.                        *)
ParseThrows ==
    /\ ~undefined
    /\ \E values \in AttributeLists :
          /\ Make(values)
          /\ strays' = strays \cup Range(Fresh(Len(values)))
    /\ UNCHANGED <<live, held, loose, undefined, meant, tainted>>

(* Every attribute of p can still be used. *)
Usable(p) == Range(held[p]) \subseteq alive

(* Using one that is deleted. *)
Misuse(p) ==
    /\ ~undefined /\ p \in live /\ ~Usable(p)
    /\ undefined' = TRUE
    /\ UNCHANGED <<content, alive, live, held, loose, meant, tainted, strays>>

(* Fault: the copy holds the pointers of the other packet.                 *)
Copied_Pointers(q) == held[q]

(* Fault: the loop over the attributes goes one too far.                   *)
Copied_PastEnd(q) == Fresh(Len(held[q]) + 1)

(* What the copy constructor fills m_attributes with: clones. *)
Copied(q) == Fresh(Len(held[q]))

Copy(p, q) ==
    /\ ~undefined /\ p \notin live /\ q \in live /\ Usable(q)
    /\ Make(ContentOf(held[q]))
    /\ held' = [held EXCEPT ![p] = Copied(q)]
    /\ meant' = [meant EXCEPT ![p] = meant[q]]
    /\ live' = live \cup {p}
    /\ UNCHANGED <<loose, undefined, tainted, strays>>

(* p = q: the pointers p had are overwritten. *)
Assign(p, q) ==
    /\ ~undefined /\ p \in live /\ q \in live /\ p # q
    /\ strays' = strays \cup Range(held[p])
    /\ held' = [held EXCEPT ![p] = held[q]]
    /\ meant' = [meant EXCEPT ![p] = meant[q]]
    /\ tainted' = tainted \cup {p, q}
    /\ UNCHANGED <<content, alive, live, loose, undefined>>

(* Fault: the destructor forgets the first attribute.                      *)
Deleted_ButFirst(p) == {held[p][i] : i \in DOMAIN held[p] \ {1}}

(* What the destructor deletes. *)
Deleted(p) == Range(held[p])

Destroy(p) ==
    /\ ~undefined /\ p \in live /\ Usable(p)
    /\ alive' = alive \ Deleted(p)
    /\ live' = live \ {p}
    /\ tainted' = tainted \ {p}
    /\ held' = [held EXCEPT ![p] = <<>>]
    /\ meant' = [meant EXCEPT ![p] = <<>>]
    /\ UNCHANGED <<content, loose, undefined, strays>>

Next ==
    \/ NewAttribute \/ ApplicationThrows \/ ParseThrows
    \/ \E p \in Packets : Build(p) \/ Parse(p) \/ Misuse(p) \/ Destroy(p)
    \/ \E p, q \in Packets : Copy(p, q) \/ Assign(p, q)

Spec == Init /\ [][Next]_vars

-----------------------------------------------------------------------------
(* Properties.                                                             *)

(* Every variable has its type. *)
TypeOK ==
    /\ content \in Seq(Values) /\ Len(content) <= MaxObjects
    /\ alive \subseteq DOMAIN content /\ strays \subseteq DOMAIN content
    /\ live \subseteq Packets /\ tainted \subseteq live
    /\ held \in [Packets -> Seq(DOMAIN content)]
    /\ meant \in [Packets -> Seq(Values)]
    /\ loose \in Seq(DOMAIN content)
    /\ undefined \in BOOLEAN

(* A packet that took no part in an assignment is the only owner of its    *)
(* attributes, and these are what it was made from, whatever becomes of    *)
(* the packets it was copied from or to; only an assignment leads to the   *)
(* use of a deleted attribute.                                             *)
Owns(p) ==
    /\ Usable(p)
    /\ ContentOf(held[p]) = meant[p]
    /\ \A i, j \in DOMAIN held[p] : held[p][i] = held[p][j] => i = j
    /\ Range(held[p]) \cap Range(loose) = {}
    /\ \A q \in live \ {p} : Range(held[p]) \cap Range(held[q]) = {}
SoleOwner ==
    /\ \A p \in live \ tainted : Owns(p)
    /\ undefined => tainted # {}

(* An attribute that is not deleted belongs to a packet or to the          *)
(* application, or is the leak of a constructor that threw, of an          *)
(* application that did, or of an assignment: the destructors lose none.   *)
NothingLost ==
    alive \subseteq Range(loose) \cup strays \cup (UNION {Range(held[p]) : p \in live})

=============================================================================
