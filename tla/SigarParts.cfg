SPECIFICATION PartsSpec
CONSTANTS
  CacheKeys = {0, 1, 3, 4, 7}
  CacheValues = {v1}
  NoValue = NoValue
  InitialSize = 1
  Pids = {1, 2}
  MaxClock = 3
  MaxLives = 2
  PerSecond = 1
  Expire = 2
  Cores = 1
  Sockets <- MCSockets
  QueryPids = {1, 2, 3}
  Self = 2
  ProcessData <- MCData
  Reapers = {1}
  PidFiles <- MCPidFiles
  Missing = {"Fd", "Exe"}
  RegexImpl = TRUE
  Conditions <- MCConditions
  MaxBranches = 2
  Ui32Size = 16
  Ui64Size = 64
CONSTRAINT OneBusyProcess
INVARIANTS
  NothingLeaks
  OnlyFailuresMixProcesses
  ListenCacheSound
  DirectionsKept
  
  
PROPERTIES
  IsDictionary
  TotalsGrow
  StreamLeftByTcpOnly
CHECK_DEADLOCK FALSE
