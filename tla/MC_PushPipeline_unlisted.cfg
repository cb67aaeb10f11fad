SPECIFICATION Spec
CONSTANTS
    c1 = c1
    c2 = c2
    t1 = t1
    t2 = t2
    ChannelList <- OneChannel
    Threads = {t1, t2}
    NoThread = NoThread
    numGpFifoEntries = 2
    OtherPool = OtherPool
    HeldChunks = {{}}
    NumChunks = 1
    ChunkSize = 2
    MaxPushSize = 2
    PushSizes = {1}
    PayloadRange = 2
    MaxToComplete = 1
    FailingChannels = {}
    ToolsEnabled = FALSE
    MaxQueued = 2
INVARIANT CompletedEntryIsListed
