\* Every order of the worklists on five programs, paths with up to 4 open calls.
SPECIFICATION Spec
CONSTANTS
    err = err
    tentative = tentative
    fReturn = fReturn
    g = g
    x = x
    f = f
    h = h
    OK = OK
    UNINITIALIZED = UNINITIALIZED
    NoReturn = NoReturn
    Errors = {err}
    TentativeErrors = {tentative}
    Globals = {fReturn, g}
    Locals = {x}
    Functions = {f, h}
    Real <- MCReal
    Return <- MCReturn
    Symbols <- MCSymbols
    Owner <- MCOwner
    Epsilon = Epsilon
    Start = "main.0"
    Programs <- MCPrograms
    MaxCalls = 4
INVARIANTS TypeOK StackAccepted EveryPathCounts NoErrorForgotten AnalyserInv PrecisionInv
PROPERTIES ResultComes ImplementsJoin
CHECK_DEADLOCK FALSE
