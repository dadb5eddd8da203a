CONSTANTS
  MaxWarm = 3
    ApiPaths = {"a", "b"}
    MaxAttempts = 2
    MaxApiCalls = 3
    MaxAskers = 4
    Listed = {"n1", "n2", "n3", "n4", "n5"}
    PageSize = 2
    SafetyCap = 3
    MaxMoves = 2
    MaxSocks = 5
    MaxPulls = 2
    MaxPulses = 3
    MaxMsgs = 4
    MaxFlips = 4
    Hashes_ <- ShellHashes
    Links <- ShellLinks
    HighLinks = {"home", "map"}
    Rooms = {0, 2, 3, 4, 5, 6}
    MaxSteps = 4
    Queries = {"", "q1", "q2"}
    MnRoutes = {"packets", "tools", "rx-coverage"}
    MnEls = {"e1", "e2"}
    MaxMenu = 4
    PnDefaults <- PanelCorners
    MaxPanel = 4
    TgRows = {"r1", "r2"}
    TgTabs <- ShellTabs
    MaxTouches = 4
    HintRoutes = {"packets", "home", "live"}
    MaxHints = 2
    RgCodes = {"SJC", "SFO", "OAK"}
    RgUrl = {"SJC", "XXX"}
    RgPills = 2
    MaxRgInits = 2
    MaxRgUses = 3
    FbTexts = {"", "a", "b"}
    FbSuggests <- BoxSuggests
    FbNames = {"one", "mine"}
    FbBuiltin <- BoxBuiltin
    MaxCtxMenus = 2
    MaxFbEdits = 2
SPECIFICATION MCShellSpec
CHECK_DEADLOCK FALSE
INVARIANTS
  
  ShellConsistent
  WidgetsConsistent
  FiltersTruthful
PROPERTIES
  ShellProgress
