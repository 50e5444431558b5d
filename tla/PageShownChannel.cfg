\* The startup snapshot comes again after a channel was set.
SPECIFICATION PageSpec
CONSTANTS
    Radios <- MCRadios
    DefaultList <- MCChannels
    ProfileList <- MCChannels
    MinPower = 0
    MaxPower = 290
    Posts <- MCPosts
    RingSize = 3
    ReadyPeriod = 1
    MaxAnswers = 1
INVARIANTS
    ChannelShownIsOfFrequency
VIEW ButReplies
