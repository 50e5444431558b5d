\* A license ceiling of 28.6 dBm, no faults.
SPECIFICATION Spec
CONSTANTS
    Profile <- MCProfile
    ProfileList <- MCProfileList
    DefaultList <- MCDefaultList
    BootFreq = 20
    FactoryFreq = 5
    BootDbm = 30
    MaxDbm = 39
    SoftBoot = 2
    ResetTime = 3
    RecoveryWindow = 2
    MinPower = 0
    MaxPower = 286
    Ops <- ServiceOps
    ChannelRequests <- FewChannels
    PowerRequests <- FewPowers
    Faults = {}
    MaxStray = 1
    Maintenance <- Nobody
INVARIANTS
    CeilingHolds
