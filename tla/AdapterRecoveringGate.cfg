\* Only the replies of the radio may be late.
SPECIFICATION Spec
CONSTANTS
    Profile <- MCProfile
    ProfileList <- MCProfileList
    DefaultList <- MCDefaultList
    BootFreq = 20
    FactoryFreq = 5
    BootDbm = 30
    MaxDbm = 39
    SoftBoot = 2
    ResetTime = 3
    RecoveryWindow = 2
    MinPower = 0
    MaxPower = 286
    Ops <- ServiceOps
    ChannelRequests <- FewChannels
    PowerRequests <- FewPowers
    Faults = {"timeout"}
    MaxStray = 1
    Maintenance <- Nobody
PROPERTIES
    RecoveringGate
