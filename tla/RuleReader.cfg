\* Every file of four rules, under every command line that asks for one analysis.
CONSTANTS
    Length = 4
    Files <- MCFiles
    OptionSets <- OneAnalysis
SPECIFICATION Spec
INVARIANTS PointMatchesRule PointsComplete ReaderInv
CHECK_DEADLOCK FALSE
