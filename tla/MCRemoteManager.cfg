SPECIFICATION FairSpec
CONSTANTS
    b1 = b1
    b2 = b2
    m1 = m1
    m2 = m2
    s1 = s1
    pc1 = pc1
    Shutdown = Shutdown
    None = None
    Opens <- MCOpens
    Stops <- MCStops
    Devices <- MCDevices
    DeviceOf <- MCDeviceOf
    Streams <- MCStreams
CHECK_DEADLOCK FALSE
INVARIANT AlwaysOwned
INVARIANT NothingOutlivesClose
PROPERTY CallsReturn
