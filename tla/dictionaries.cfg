SPECIFICATION Spec
CONSTANTS
    AttrCodes = {1, 257}
    AttrNames = {1, 2}
    VendorIds = {0, 10}
    VendorNames = {1, 2}
    ValueCodes = {0, 1}
    ValueNames = {1}
    Types = {"string", "integer"}
    NoName = NoName
    NoCode = NoCode
    NoType = NoType
    NoVendor = NoVendor
    Menu <- MCMenu
    MaxLines = 6
    MaxDepth = 2
INVARIANTS
    TypeOK
    LoadedAsWritten
    OnlyConflictsRefused
    TypesHaveSource
