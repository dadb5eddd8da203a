SPECIFICATION MCPagesSpec
CONSTANTS
  SaWindows = {"1h", "24h"}
  SaTexts = {"", "a"}
  MaxSa = 5
  MaxMq = 3
  MaxPf = 2
  TpStyles <- TileStyles
  MaxTp = 4
  MaxCt = 3
  MaxRoute = 4
  DetailMax = 2
  HopKeys = {"h1", "h2", "h3"}
  Windows = {"w1", "w2"}
  MaxMap = 4
  MaxIv = 3
  MaxWaits = 2
  MaxFrames = 3
  MaxNdLoads = 2
  NodeKeys = {"k1", "k2", "k3"}
  Located = {"k1", "k2"}
  MaxViews = 3
  ReachKeys = {"k1", "k2"}
  MaxReach = 5
  Receivers = {"r1"}
  MaxRx = 2
  Observers = {"o1", "o2", "o3"}
  MaxObsLoads = 4
  MaxCharts = 3
  MaxRuns = 2
  HomeKeys = {"k1", "k2"}
  HomePlaced = {"k1"}
  MaxHome = 2
  MaxHomeLoads = 2
  MaxHealth = 1
CHECK_DEADLOCK FALSE
INVARIANTS
  StatusConsistent
  MapConsistent
  AnalyticsConsistent
  
  SmallPagesConsistent
PROPERTIES
  PagesProgress
  ReachNewest
