SPECIFICATION Spec
CONSTANTS
    Codes = {1, 2, 3}
    Names = {a, b, c}
    NoName = NoName
    NoCode = NoCode
    Objects = {d1, d2}
SYMMETRY Symmetry
INVARIANTS
    TypeOK
    NamesUnique
    CodesKnown
    NamesKnown
PROPERTIES
    AliasesKept
