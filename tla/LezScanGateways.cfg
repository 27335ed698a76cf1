SPECIFICATION Spec
CONSTANTS
    news = news
    music = music
    near = near
    far = far
    Channel = {news}
    Node = {near, far}
    Inscription <- OneChannelChain
    MaxSlot = 5
    PageSlots = 2
    MaxPages = 2
    FirstGateways <- Both
    OtherGateways <- Lists
    Hints = {0, 3}
    Ops = {"follow", "gateways"}
    MaxCalls = 2
    MaxFaults = 0
    MaxPolls = 1
    Malformed = FALSE
INVARIANTS NoneSkipped
CHECK_DEADLOCK FALSE
