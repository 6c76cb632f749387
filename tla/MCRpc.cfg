CONSTANTS
    r1 = r1
    r2 = r2
    s = s
    t = t
    Remotes = {r1, r2}
    PoolSize = 2
    Names <- MCNames
    Letters = {"f", "g"}
    Digits = {"1"}
    Underscore = "_"
    ParamTypes = {"int32", "cstr"}
    Signatures <- MCSignatures
    ArgLists <- MCArgLists
    TooLong = "long"
    Integers = {"one"}
    Strings = {s, t}
    Garbled = "garbled"
    Nothing = Nothing
    RightToLeft = TRUE
    MaxDepth = 3
    MaxHeld = 1
SYMMETRY MCSymmetry
SPECIFICATION Spec
INVARIANTS
    PacketsAccounted
    SlotIsForInnermost
    ArgumentsArrive
    CalledAsBound
PROPERTIES
    OutOfPacketsOnlyAtDepth
    ImplementsCallStack
