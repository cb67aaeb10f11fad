SPECIFICATION Spec
CONSTANTS
    c1 = c1
    c2 = c2
    t1 = t1
    t2 = t2
    ChannelList <- OneChannel
    Threads = {t1, t2}
    NoThread = NoThread
    numGpFifoEntries = 4
    OtherPool = OtherPool
    HeldChunks = {{}, {1}}
    NumChunks = 2
    ChunkSize = 4
    MaxPushSize = 2
    PushSizes = {2}
    PayloadRange = 4
    MaxToComplete = 2
    FailingChannels = {c1}
    ToolsEnabled = FALSE
    MaxQueued = 4
SYMMETRY Symmetry
INVARIANT RingExact
INVARIANT ChunkMapsExact
PROPERTY TracksCompletion
