\* The body of an if has two blocks.
SPECIFICATION Spec
CONSTANTS
    entry = entry
    a = a
    b = b
    c = c
    x = x
    y = y
    Blocks = {entry, a, b, c}
    Entry = entry
    Vars = {x, y}
    Values <- SmallValues
    CodeLists <- NegativeCodes
    Functions <- JoiningFunctions
INVARIANTS SafeMeansSafe
CHECK_DEADLOCK FALSE
