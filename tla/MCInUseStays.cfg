SPECIFICATION SharedSpec
CONSTANTS
    r1 = r1
    r2 = r2
    s1 = s1
    s2 = s2
    m1 = m1
    m2 = m2
    m3 = m3
    g1 = g1
    a1 = a1
    a2 = a2
    p1 = p1
    p2 = p2
    Typed = Typed
    None = None
    MaxCalls = 3
    RelayIds <- MCRelayIds
    SiteIds <- MCSiteIds
    MachineIds <- MCMachineIds
    GroupIds <- MCGroupIds
    NameOf <- MCNameOf
    Addresses <- MCAddresses
    Procs <- MCProcs
    Doing <- MCDoing
    Subnet <- MCSubnet
    Sightings <- MCSightings
    Start <- MCStart
CHECK_DEADLOCK FALSE
PROPERTY InUseStays
