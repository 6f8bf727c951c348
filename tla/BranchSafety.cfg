\* Functions of four blocks that test once or twice, with any ways between them.
SPECIFICATION Spec
CONSTANTS
    entry = entry
    a = a
    b = b
    c = c
    x = x
    y = y
    Blocks = {entry, a, b, c}
    Entry = entry
    Vars = {x, y}
    Values <- SmallValues
    CodeLists <- BothSigns
    Functions <- MixedFunctions
INVARIANTS SafeWhereTested TestsRecognised SafetyInv
CHECK_DEADLOCK FALSE
