SPECIFICATION Spec
CONSTANTS
    root = root
    home = home
    None = None
    Dirs = {root, home}
    Space <- MCSpace
    MaxCount = 1
    MaxFailures = 1
    MaxSwaps = 1
    MaxMisreads = 1
INVARIANTS
    NothingLost
    NeverOverReports
    OneNegativePerCause
PROPERTIES
    SpaceBetween
