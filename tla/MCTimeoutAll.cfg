\* All commands of the proxy, with a migration at the source or at the destination.
CONSTANTS
    proxy = proxy
    None = None
    Servers <- OneServer
    Commands <- AllCommands
    TICK = 2
    TICK_ERROR = 1
    EXTEND = 2
SPECIFICATION FairSpec
INVARIANTS TypeOK ChannelsReady NoTurningBack
PROPERTIES TimeoutTaken
