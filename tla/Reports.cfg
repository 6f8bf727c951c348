\* A variable and a temporary of main, two codes with their tentative names, and
\* for the calls two functions, a formal argument and a variable of the callee.
CONSTANTS
    e1 = e1
    t1 = t1
    e2 = e2
    t2 = t2
    x = x
    tmp = tmp
    c = c
    p = p
    fReturn = fReturn
    hReturn = hReturn
    f = f
    h = h
    OK = OK
    UNINITIALIZED = UNINITIALIZED
    NoReturn = NoReturn
    Errors = {e1, e2}
    TentativeErrors = {t1, t2}
    Globals = {p, fReturn, hReturn}
    Locals = {x, tmp, c}
    Functions = {f, h}
    Real <- MCReal
    Return <- MCReturn
    Order <- MCOrder
    Temporaries = {tmp}
    Programs <- MCPrograms
SPECIFICATION ReportsSpec
INVARIANTS OverwriteFound TentativeKeptApart EveryReturnedError MustUnlessUninitialized WarnedIfIdle WitnessStands SampleTold PointsInv RowsExact
CHECK_DEADLOCK FALSE
