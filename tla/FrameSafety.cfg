SPECIFICATION Spec
CONSTANTS
    h1 = h1
    h2 = h2
    h3 = h3
    cpu1 = cpu1
    cpu2 = cpu2
    M = M
    Handles <- MCHandles
    NoHandle = NoHandle
    Frames <- MCFrames
    Keys <- MCFrames
    EchoOf <- MCEchoOf
    Worker = Worker
    EDT = EDT
    Threads <- MCThreads
    NoThread = NoThread
    WorkerFrames = {cpu1}
    ButtonFrames = {M}
    SharedOpen = {TRUE, FALSE}
    MaxFaults = 1
    MaxClicks = 1
    MaxRestarts = 1
    PromptBoard = FALSE
INVARIANTS
    TypeOK
    MonitorExclusion
    ConnectedHasHandle
    NoMismatch
    InStep
PROPERTIES
    NoSwapInTransfer
SYMMETRY HandleSymmetry
