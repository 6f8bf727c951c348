\* Three rules over three variables and two error codes.
SPECIFICATION Spec
CONSTANTS
    e1 = e1
    e2 = e2
    x = x
    y = y
    z = z
    OK = OK
    UNINITIALIZED = UNINITIALIZED
    None = None
    Errors = {e1, e2}
    Vars = {x, y, z}
    Length = 3
    RuleLists <- MCRuleLists
INVARIANTS FilterInv SameErrors PointsKept
PROPERTIES ImplementsFlow
