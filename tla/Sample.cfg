SPECIFICATION Spec
CONSTANTS
    Limit = 2
    None = None
    NetReadings <- MCNet
    DiskReadings <- MCDisk
    Spaces <- MCSpaces
    Memories <- MCMemories
    CpuTimes <- MCCpuTimes
INVARIANTS
    OnlyNegativesFail
    PairsInStep
    OrderKept
    WindowAgrees
