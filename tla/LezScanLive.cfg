SPECIFICATION FairSpec
CONSTANTS
    news = news
    music = music
    near = near
    far = far
    Channel = {news}
    Node = {near, far}
    Inscription <- OneChannelChain
    MaxSlot = 5
    PageSlots = 2
    MaxPages = 2
    FirstGateways <- Both
    OtherGateways <- NoLists
    Hints = {0}
    Ops = {"follow", "unfollow"}
    MaxCalls = 2
    MaxFaults = 1
    MaxPolls = 1
    Malformed = FALSE
INVARIANTS NoneSkipped
PROPERTIES EveryInscriptionIsListed
CHECK_DEADLOCK FALSE
