SPECIFICATION Spec
CONSTANTS
    Hexes = {a}
    Rates = {"climb"}
    Corroborations = {TRUE}
    None = None
    MinAdvance = 2
    MaxStaleness = 2
    MaxPending = 1
    Readings = {3800}
    Enabled = {TRUE}
    Quiet = {TRUE, FALSE}
    Located = {TRUE, FALSE}
    Position = TRUE
    MaxBack = 0
    Crashes = FALSE
    HistoryFails = FALSE
INVARIANT HoldIsShown
