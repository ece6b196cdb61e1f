SPECIFICATION LiveSpec
CONSTANTS
    Hexes = {a, b, c}
    Rates = {"climb"}
    Corroborations = {TRUE}
    None = None
    MinAdvance = 2
    MaxStaleness = 1
    MaxPending = 2
    Readings = {3800}
    Enabled = {TRUE}
    Quiet = {FALSE}
    Located = {TRUE}
    Position = FALSE
    MaxBack = 0
    Crashes = TRUE
    HistoryFails = TRUE
INVARIANT SlotsDistinct
INVARIANT TypeOK
PROPERTY AdvancesArePaced
PROPERTY QueueIsFifo
PROPERTY QueueDrains
