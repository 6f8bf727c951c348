\* Signed comparisons with an error code.
SPECIFICATION Spec
CONSTANTS
    entry = entry
    a = a
    b = b
    c = c
    x = x
    y = y
    Blocks = {entry, a, b, c}
    Entry = entry
    Vars = {x, y}
    Values <- SmallValues
    CodeLists <- NegativeCodes
    Functions <- ComparingFunctions
INVARIANTS SafeMeansSafe
CHECK_DEADLOCK FALSE
