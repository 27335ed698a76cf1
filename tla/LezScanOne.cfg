SPECIFICATION Spec
CONSTANTS
    news = news
    music = music
    near = near
    far = far
    Channel = {news}
    Node = {near, far}
    Inscription <- OneChannelChain
    MaxSlot = 5
    PageSlots = 2
    MaxPages = 2
    FirstGateways <- Both
    OtherGateways <- NoLists
    Hints = {0, 3}
    Ops = {"follow", "refresh", "remove", "restart"}
    MaxCalls = 3
    MaxFaults = 1
    MaxPolls = 1
    Malformed = FALSE
INVARIANTS TypeOK NoneSkipped OneRowPerId
PROPERTIES FeedsTheList BackfillIsQuiet
CHECK_DEADLOCK FALSE
