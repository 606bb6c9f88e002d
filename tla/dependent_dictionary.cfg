SPECIFICATION Spec
CONSTANTS
    Codes = {1, 2}
    Names = {a, b}
    NoName = NoName
    NoCode = NoCode
    Objects = {d1, d2}
    Scopes = {1, 2}
SYMMETRY Symmetry
INVARIANTS
    TypeOK
    NamesUnique
    CodesKnown
    NamesKnown
PROPERTIES
    AliasesReplacedByAppend
