\* The link fails in every way and the service restarts; nobody else touches the radio.
SPECIFICATION FairSpec
CONSTANTS
    Profile <- MCProfile
    ProfileList <- MCProfileList
    DefaultList <- MCDefaultList
    BootFreq = 20
    FactoryFreq = 5
    BootDbm = 30
    MaxDbm = 39
    SoftBoot = 2
    ResetTime = 3
    RecoveryWindow = 2
    MinPower = 0
    MaxPower = 286
    Ops <- MCOps
    ChannelRequests <- MCChannelRequests
    PowerRequests <- MCPowerRequests
    Faults = {"timeout", "stray", "garble", "restart"}
    MaxStray = 1
    Maintenance <- Nobody
INVARIANTS
    TypeOK
    WirePowerInRange
    WindowCoversSoftBoot
    ChannelAgrees
    StatusTracksWindow
PROPERTIES
    NoDispatchIntoKnownReboot
    CallsEnd
    Promise
