\* Every document: may a controller look?
SPECIFICATION FairSpec
CONSTANTS
    Files <- Documents
    Stoppers = {"beside"}
    Clients = 1
    Busy = 0
    Patience = 1
    FreePorts = {49152}
CHECK_DEADLOCK FALSE
INVARIANT ControllersMayLook
