\* One page with its controls, one radio; answers, events, reconnections,
\* reloads, restarts and the operator's picks in any order.
SPECIFICATION ControlsSpec
CONSTANTS
    Radios <- MCRadios
    DefaultList <- MCChannels
    ProfileList <- MCChannels
    MinPower = 0
    MaxPower = 290
    Posts <- MCPosts
    RingSize = 2
    ReadyPeriod = 1
    MaxAnswers = 1
INVARIANTS
    PageAgrees
    ScreenIsCache
    PresetIsCurrent
VIEW ButReplies
CONSTRAINTS
    CommandsAfterReady
    OneOvertakes
