SPECIFICATION Spec
CONSTANTS
    Lowest <- MCLowest
    Highest <- MCHighest
    MaxChars = 2
    Chars <- MCChars
    Bytes <- MCBytes
    Take <- MCTake
    Hash <- MCHash
    InLimit = 2
    TicksPerSecond = 3
    SecondsPerDay = 2
    TicksPerHour = 3
    TicksPerMonth = 6
    MonthsPerYear = 2
    BatchSize = 3
    RowGroupSize = 2
    PageSize = 1
    StatChars = 1
    Tables <- OpaqueTables
INVARIANT PushedDownApplied
CHECK_DEADLOCK FALSE
