SPECIFICATION ExchangeSpec
CONSTANTS
    Owners <- MCOwners
    Rank <- MCRank
    Rows <- MCPoweredRows
    Sources <- MCPowered
    Targets <- MCNewTarget
    BatchSize = 5
    MaxKills = 0
    EditDirs <- MCNested
    MaxEdits = 1
INVARIANT SecondExportSame
CHECK_DEADLOCK FALSE
