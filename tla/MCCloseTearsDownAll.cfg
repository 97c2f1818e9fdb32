SPECIFICATION Spec
CONSTANTS
    b1 = b1
    b2 = b2
    m1 = m1
    m2 = m2
    s1 = s1
    pc1 = pc1
    Shutdown = Shutdown
    None = None
    Opens <- MCTwoStreams
    Stops <- MCStops
    Devices <- MCDevices
    DeviceOf <- MCStreamDeviceOf
    Streams <- MCTwoStreams
CHECK_DEADLOCK FALSE
INVARIANT CloseTearsDownAll
