\* Every document, every way to stop, failing servers, three clients.
\* The process ends, so the system may stop.
SPECIFICATION FairSpec
CONSTANTS
    Files <- Documents
    Stoppers = {"beside", "after", "inside"}
    Clients = 3
    Busy = 2
    Patience = 3
    FreePorts = {49152, 65535}
CHECK_DEADLOCK FALSE
INVARIANTS
    TypeOK
    OneHeartbeat
    HubIsSilent
    NothingPublishedLate
    HeartbeatGap
    ReadyOnAnnouncedPorts
    DevTokenOpens
    ScopesAreOrdered
    RadiosAsConfigured
PROPERTIES
    LifePromise
    ReadinessIsDecided
    StopReturns
