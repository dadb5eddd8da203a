CONSTANTS
    BufferCap = 2
    BufferTrim = 1
    MaxFetched = 2
    MaxCommands = 3
    MaxArrivals = 2
    MaxVisits = 2
    Paths = {p1, p2}
    MaxHops = 3
    MaxAnims = 1
    MaxRecent = 1
    LineFrames = 2
    PulseFrames = 1
    FadeFrames = 2
    MaxToggles = 2
    MaxMounts = 2
    Hashes = {h1, h2}
    Favourite = {h1}
    Multibyte = {h2}
    FeedMax = 1
    MaxPackets = 3
    MaxSwitches = 2
    MaxHandoffs = 1
    MaxStays = 2
    MaxTurns = 2
    NodeKeys = {"k1", "k2"}
    Infra = {"k1"}
    Areas <- LiveAreas
    PastKeys = {"k1"}
    MaxMarkers = 3
    MaxLoads = 2
SPECIFICATION LiveSpec
CHECK_DEADLOCK FALSE
INVARIANTS
  
  VcrConsistent
  FeedExact
  PageClean
PROPERTIES
  LiveProgress
