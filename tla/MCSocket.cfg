SPECIFICATION Spec
CONSTANTS
    Objects = {a, b, c}
    Fds = {f1, f2, f3}
    INVALID = INVALID
    Handlers = {h1, h2}
    NoHandler = NoHandler
SYMMETRY Places
INVARIANTS DescriptorsOwned CallbackFollows
PROPERTIES ForeignUntouched
CHECK_DEADLOCK FALSE
