SPECIFICATION Spec
CONSTANTS
    PastHeader = 1
    Stack = 204
    MaxItem = 4
    MaxDevices = 2
    Noise = {1}
    NodeId = {1, 65538}
    NodeStats = {2}
    NullCalls = {}
    NodeDevs <- MCNodeDevs
    Connecting <- MCShortProfile
    Now <- MCNow
    Today <- MCToday
    Epoch <- MCEpoch
    Headers <- MCHeaders
    Loads <- Attributes
    Shapes <- MCShapes
    Samples <- MCSamples
    DeviceIds <- MCDeviceIds
INVARIANT
    TextsSent
CHECK_DEADLOCK FALSE
