------------------------- MODULE MCDictionaryLoader -------------------------
(* The loader with lines TLC can enumerate: attributes that change their   *)
(* name, that share a name, that share the low byte of their codes; values *)
(* of one name; two vendors of one number, one that is renumbered to 0,    *)
(* the number under which attributes of no vendor are kept.                *)
EXTENDS DictionaryLoader

Attribute(v, name, code, type) ==
    [kind |-> "ATTRIBUTE", vendor |-> v, name |-> name, code |-> code, type |-> type]
Value(ofVendor, code) ==
    [kind |-> "VALUE", ofVendor |-> ofVendor, attribute |-> 1, name |-> 1, code |-> code]
Vendor(name, id) == [kind |-> "VENDOR", name |-> name, code |-> id]

MCMenu ==
    {Attribute(v, 1, 1, "string") : v \in {NoVendor, 1}}
    \cup {Attribute(v, 2, 1, "integer") : v \in {NoVendor, 1}}
    \cup {Attribute(2, 1, 1, "integer"), Attribute(2, 1, 257, "string"),
          Attribute(NoVendor, 1, 257, "string")}
    \cup {Value(FALSE, 0), Value(TRUE, 0), Value(TRUE, 1)}
    \cup {Vendor(1, 10), Vendor(2, 10), Vendor(1, 0)}

=============================================================================
