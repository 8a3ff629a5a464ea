\* No command arrives: does the wait end?
CONSTANTS
    proxy = proxy
    None = None
    Servers <- NoServer
    Commands <- AllCommands
    TICK = 2
    TICK_ERROR = 1
    EXTEND = 2
SPECIFICATION FairSpec
PROPERTIES WaitEnds
