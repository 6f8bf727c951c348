\* Up to three rules with up to three assignments in all, three activations.
SPECIFICATION Spec
CONSTANTS
    err = err
    tentative = tentative
    g = g
    fReturn = fReturn
    x = x
    f = f
    p = p
    OK = OK
    UNINITIALIZED = UNINITIALIZED
    NoReturn = NoReturn
    Errors = {err}
    TentativeErrors = {tentative}
    Globals = {g, fReturn}
    Locals = {x}
    Functions = {f, p}
    Real <- MCReal
    Return <- MCReturn
    Bases = {"identity", "identityGlobals"}
    Assignments <- MCAssignments
    MaxDepth = 3
    MaxRules = 3
    MaxAssigns = 3
    RepeatTargets = FALSE
INVARIANTS PathInv SummarySound ReportSound ReportPrecise EitherValueKept
CHECK_DEADLOCK FALSE
