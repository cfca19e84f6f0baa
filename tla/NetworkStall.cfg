SPECIFICATION LiveSpec
CONSTANTS
    eth = eth
    wlan = wlan
    mac1 = mac1
    mac2 = mac2
    None = None
    Interfaces = {eth}
    AddressMaps <- MCOneMap
    Directions = {"rx", "tx"}
    Half = 2
    MaxCount = 1
    MaxFailures = 0
    MaxResets = 0
    MaxList = 2
PROPERTIES
    SamplesKeepComing
