\* Two analyses on one command line.
CONSTANTS
    Length = 2
    Files <- MCFiles
    OptionSets <- TwoAnalyses
SPECIFICATION Spec
INVARIANT PointMatchesRule
CHECK_DEADLOCK FALSE
