\* Two radios, every kind of request, restarts at any moment; ring of 3 events.
\* The adapters' default list is the one their radios advertise.
SPECIFICATION FairSpec
CONSTANTS
    Radios <- TwoRadios
    DefaultList <- MCProfileList
    ProfileList <- MCProfileList
    MinPower = 0
    MaxPower = 290
    Posts <- PostsForTwo
    RingSize = 3
    ReadyPeriod = 2
INVARIANTS
    TypeOK
    LastStateIsCurrent
    OkIsTrue
    ReadyAmongBeats
PROPERTIES
    HandlerEnds
    ReadyReturns
    ChangesAreRecorded
    AdaptersAreCalledInTurn
