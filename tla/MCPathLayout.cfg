\* Every fingerprint, key id and valid email of the bounds, against every
\* primary: the entry paths decode back and the link targets resolve.
CONSTANTS
    HexChars <- MCHexChars
    EmailChars <- MCEmailChars
    FprLen = 6
    KidLen = 5
    MaxEmailLen = 4
    None = None
INIT LayoutInit
NEXT LayoutNext
INVARIANT EntryNamesItsIdentifier
INVARIANT LinkTargetResolves
