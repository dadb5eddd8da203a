SPECIFICATION MCListsSpec
CONSTANTS
  Tables = {1, 2, 3}
  Prio <- PktPrio
  Widths = {800, 950, 1100}
  MaxFits = 6
  Rows = {"r1", "r2"}
  NoRow = "none"
  MaxSlides = 6
  MaxEntries = 6
  MaxKids = 2
  ViewH = 2
  Buffer = 1
  MaxDraws = 3
  PktHashes = {"h1", "h2"}
  PktLimit = 1
  PauseCap = 1
  MaxMsg = 2
  MaxClicks = 4
  Texts = {"", "x1"}
  Channels = {"", "c1"}
  Obs = {"o1", "o2"}
  MaxEdits = 4
  DPkts = {"p1", "p2"}
  MaxSel = 3
  GHashes = {"h1", "h2"}
  MaxGroup = 4
  MaxChMsgs = 3
  AnswerLimit = 2
  MaxChActs = 2
  KeyNames = {"a", "b"}
  ServerNames = {"b"}
  MaxKeyActs = 4
  Packets = {"p1", "p2", "p3"}
  MaxFetches = 3
  Senders = {"s1", "s2"}
  MaxPanelActs = 5
  Fields = {"accent", "heat"}
  ServerHas = {"accent"}
  Mirrored = {"heat"}
  MaxCust = 4
  MaxGeo = 5
CHECK_DEADLOCK FALSE
INVARIANTS
  
  
  
  
  CustomizerSettles

  
