\* One connection is served: does resetLocked return?
CONSTANTS
    proxy = proxy
    None = None
    Servers <- OneServer
    Commands <- Requests
    TICK = 2
    TICK_ERROR = 1
    EXTEND = 2
SPECIFICATION FairSpec
PROPERTIES ResetReturns
