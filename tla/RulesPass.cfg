\* Functions of two statements, in sequence, in a branch or in a loop.
SPECIFICATION Spec
CONSTANTS
    e = e  g = g  x = x  t1 = t1  t2 = t2  t3 = t3  t4 = t4
    f = f  h = h  ext = ext  ptr = ptr
    argF = argF  retF = retF  retH = retH  retE = retE
    OK = OK
    UNINITIALIZED = UNINITIALIZED
    Codes = {e}
    Globals = {g}
    Locals = {x}
    Callees = {f, h, ext, ptr}
    NotFunctions = {ptr}
    Defined = {f, h}
    Tracked = {f, h}
    Temporaries <- MCTemporaries
    Formals <- MCFormals
    Return <- MCReturn
    Functions <- MCFunctions
INVARIANTS ExecutionFollowed RulesExact UnsavedKept OperandsNamed ReturnToOneCaller
CHECK_DEADLOCK FALSE
