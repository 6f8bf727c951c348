\* Every file of five of the small rules that ends as RulesPass ends one.
CONSTANTS
    main = main
    a = a
    b = b
    c = c
    exit = exit
    Length = 5
    None = None
    Main = main
    Symbols <- MCSymbols
    Files <- MCFiles
SPECIFICATION Spec
INVARIANTS SameBehaviour SequenceIntact CompressInv
CHECK_DEADLOCK FALSE
