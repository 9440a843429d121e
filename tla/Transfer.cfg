SPECIFICATION Spec
CONSTANTS
    PastHeader = 1
    Stack = 204
    MaxItem = 4
    MaxDevices = 2
    Noise = {1, 128}
    NodeId = {1, 65538}
    NodeStats = {2}
    NullCalls = {1}
    NodeDevs <- MCNodeDevs
    Connecting <- MCProfile
    Now <- MCNow
    Today <- MCToday
    Epoch <- MCEpoch
    Headers <- MCHeaders
    Loads <- MCLoads
    Shapes <- MCShapes
    Samples <- MCSamples
    DeviceIds <- MCDeviceIds
INVARIANTS
    TypeOK
    FitsBuffer
    LengthsTold
    FaultsKnown
    ReadBack
    DamageRefused
    SmallAttributesRead
    HistoryRead
    ReportArrives
PROPERTY
    RowsKept
CHECK_DEADLOCK FALSE
