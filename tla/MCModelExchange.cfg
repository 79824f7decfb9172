SPECIFICATION ExchangeSpec
CONSTANTS
    Owners <- MCOwners
    Rank <- MCRank
    Rows <- MCRows
    Sources <- MCSources
    Targets <- MCTargets
    BatchSize = 2
    MaxKills = 1
    EditDirs <- MCEditDirs
    MaxEdits = 1
INVARIANTS CopyExact RoundTripKeeps CheckedImportsClean RefsResolve
CHECK_DEADLOCK FALSE
