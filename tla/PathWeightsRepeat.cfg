\* A rule may assign to a variable that it has just assigned to itself.
SPECIFICATION Spec
CONSTANTS
    err = err
    tentative = tentative
    g = g
    fReturn = fReturn
    x = x
    f = f
    p = p
    OK = OK
    UNINITIALIZED = UNINITIALIZED
    NoReturn = NoReturn
    Errors = {err}
    TentativeErrors = {tentative}
    Globals = {g, fReturn}
    Locals = {x}
    Functions = {f, p}
    Real <- MCReal
    Return <- MCReturn
    Bases = {"identity", "uninitialized"}
    Assignments <- MCAssignments
    MaxDepth = 2
    MaxRules = 2
    MaxAssigns = 3
    RepeatTargets = TRUE
INVARIANTS EitherValueKept
CHECK_DEADLOCK FALSE
