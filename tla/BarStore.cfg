\* Two runs of the command beside the live loop; either process may die.
CONSTANTS
    Process = {"ingest", "live"}
    Absent = {}
    BarLen = 2
    Horizon = 3
    Window = 2
    BadSpread = {3}
    SpikeBars = {1}
    GapTolerance = 1
    Outages = {2, 3}
    MaxRuns = 2
    MaxDeaths = 1
    Bar <- MCBars
    Year <- MCYears
    YearOf <- MCYearOf
    Version <- MCVersions
    Traded <- MCTraded
    Ranges <- MCRanges
SPECIFICATION Spec
INVARIANTS TypeOK WriteStored LossReported WindowWhole
PROPERTIES ImplementsBarMap PollsGoOnUnlessLost
CHECK_DEADLOCK FALSE
