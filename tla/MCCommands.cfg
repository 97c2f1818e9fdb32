SPECIFICATION Spec
CONSTANTS
    None = None
    Gone = Gone
    u1 = u1
    u2 = u2
    o1 = o1
    o2 = o2
    t1 = t1
    t2 = t2
    t3 = t3
    b1 = b1
    b2 = b2
    d1 = d1
    r1 = r1
    p1 = p1
    p2 = p2
    p3 = p3
    a1 = a1
    secret = secret
    Versions <- MCVersions
    Installed <- MCInstalled
    Releases <- MCReleases
    Updaters <- MCUpdaters
    Openers <- MCOpeners
    Devices <- MCDevices
    Relays <- MCRelays
    Ports <- MCPorts
    Apps <- MCApps
    Tabs <- MCTabs
    Browser <- MCBrowser
    Passwords <- MCPasswords
    Lines <- MCLines
    MaxBuilds = 2
    Repeat = 2
    MaxTokens = 3
CHECK_DEADLOCK FALSE
INVARIANT OneReleaseIsInstalled
INVARIANT ProgramSurvives
INVARIANT WakeIsToldTruly
INVARIANT VerdictIsEvidence
INVARIANT MachineIsToldWhatWasAsked
INVARIANT UpgradeLosesNothing
INVARIANT SignInLaunchesOnce
