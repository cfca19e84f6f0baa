SPECIFICATION LiveSpec
CONSTANTS
    eth = eth
    wlan = wlan
    mac1 = mac1
    mac2 = mac2
    None = None
    Interfaces = {eth, wlan}
    AddressMaps <- MCAddressMaps
    Directions = {"rx"}
    Half = 2
    MaxCount = 2
    MaxFailures = 1
    MaxResets = 1
    MaxList = 2
INVARIANTS
    NothingLost
    NeverOverReports
PROPERTIES
    AllPresentSucceeds
    RecoversWhenBack
