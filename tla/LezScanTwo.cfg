SPECIFICATION Spec
CONSTANTS
    news = news
    music = music
    near = near
    far = far
    Channel = {news, music}
    Node = {near, far}
    Inscription <- TwoChannelChain
    MaxSlot = 3
    PageSlots = 2
    MaxPages = 1
    FirstGateways <- Both
    OtherGateways <- Lists
    Hints = {1}
    Ops = {"follow", "unfollow", "gateways", "restart"}
    MaxCalls = 3
    MaxFaults = 1
    MaxPolls = 1
    Malformed = TRUE
INVARIANTS ScanIsCurrent
PROPERTIES CursorNeverRetreats
CHECK_DEADLOCK FALSE
