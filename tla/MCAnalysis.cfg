SPECIFICATION Spec
CONSTANTS
    Loopback <- MCLoopback
    Ipv6 <- MCIpv6
    Zone <- MCZone
    Trust <- MCTrust
    Watched <- MCWatched
    Expected <- MCExpected
    Familiar <- MCFamiliar
    HasBaseline = TRUE
    Approved <- MCApproved
    Segment <- MCSegment
    Gateway <- MCGateway
    Labels <- MCLabels
    Owner <- MCOwner
    TwoLabelSuffixes <- MCTwoLabelSuffixes
    BenignDomains <- MCBenignDomains
    BenignSuffixes <- MCBenignSuffixes
    BlockedStatuses <- MCBlockedStatuses
    TunnelQtypes <- MCTunnelQtypes
    SampleLimit <- MCSampleLimit
    BurstMin <- MCBurstMin
    Scenes <- MCScenes
    OutlierMin = 3
    OutlierFloor = 3
    OutlierMultiple = 2
    MassSample = 4
    MassWindow = 1
    MassMin = 2
    Heavy = 2
    MinClients = 3
    BlockFloor = 60
    BlockTenths = 25
    NxMin = 1
    NxFloor = 15
    NxMultiple = 2
    FanoutMin = 2
    FanoutRatio = 80
    QtypeMin = 2
    QtypeRatio = 50
    BypassLimit = 3
    BypassShown = 2
    LadderMaxTtl = 5
    LadderMaxStart = 2
    LadderMinHops = 3
    MappingMin = 2
    SourceFloor = 2
    SourceMultiple = 2
    MinSources = 3
    LargeFloor = 3
    LargeLimit = 1
    ScanPorts = 2
    ScanHits = 2
    ProfileLimit = 2
    InboundLimit = 2
    InboundShown = 1
    EgressShown = 1
    Subnet <- MCSubnet
    SweepMinSources = 2
    SweepMaxHits = 2
    SweepLimit = 1
    ProberMinHits = 2
    ProberMinTime = 1
    ProberMaxPorts = 2
    ProberLimit = 2
    SteppedLow = 2
    SteppedRange = 2
    SteppedHits = 3
    SteppedLimit = 2
    SpikeHours = 3
    SpikeMultiple = 2
    HourLength = 1
INVARIANTS ExternalLogonsAreReported AttemptsAreCounted MassDeauthIsTheWidest HidingIsTold OutliersStandOut CrossingsAreTold
