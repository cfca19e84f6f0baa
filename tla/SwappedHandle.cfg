SPECIFICATION LiveSpec
CONSTANTS
    h1 = h1
    h2 = h2
    h3 = h3
    cpu1 = cpu1
    cpu2 = cpu2
    M = M
    Handles <- MCHandles
    NoHandle = NoHandle
    Frames <- MCFrames
    Keys <- MCFrames
    EchoOf <- MCEchoOf
    Worker = Worker
    EDT = EDT
    Threads <- MCThreads
    NoThread = NoThread
    WorkerFrames = {cpu1}
    ButtonFrames = {M}
    SharedOpen = {TRUE}
    MaxFaults = 1
    MaxClicks = 1
    MaxRestarts = 0
    PromptBoard = TRUE
PROPERTIES
    BoardKeepsReceiving
