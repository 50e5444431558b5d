\* One radio, the heartbeat of the code.
SPECIFICATION Spec
CONSTANTS
    Radios <- OneRadio
    DefaultList <- MCDefaultList
    ProfileList <- MCProfileList
    MinPower = 0
    MaxPower = 290
    Posts <- AllPosts
    RingSize = 4
    ReadyPeriod = 2
PROPERTIES
    ReadyIsCurrent
