SPECIFICATION SmallSpec
CONSTANTS
    Values <- MCValues
    Limits = {2, 3}
    MaxLog = 6
    Readings <- MCReadings
    Scales <- MCScales
    Pairs <- MCPairs
    MaxCores = 4
    MaxArrivals = 3
    Null = Null
INVARIANTS
    HoldsRecent
    ShowsRatio
    FailsFarOutside
    OneSamplePerArrival
PROPERTIES
    ImplementsRecentMaximum
    BarsFollow
CHECK_DEADLOCK FALSE
