SPECIFICATION Spec
CONSTANTS
    Hexes = {a, b, c}
    Rates = {"climb", "level"}
    Corroborations = {TRUE}
    None = None
    MinAdvance = 1
    MaxStaleness = 1
    MaxPending = 1
    Readings = {0, 3300, 3500, 3700}
    Enabled = {TRUE, FALSE}
    Quiet = {TRUE, FALSE}
    Located = {TRUE, FALSE}
    Position = TRUE
    MaxBack = 1
    Crashes = FALSE
    HistoryFails = FALSE
SYMMETRY HexSymmetry
INVARIANT BoardIsState
INVARIANT LocatedHoldIsShown
INVARIANT FaultBadgeIsTrue
INVARIANT RowsAreTransitions
