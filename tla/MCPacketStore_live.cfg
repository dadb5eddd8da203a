CONSTANTS
    Hashes = {h1}
    Observers = {}
    Anon = Anon
    short = short
    long = long
    longer = longer
    Paths <- ThreePaths
    NoPath = short
    PathLen <- MCPathLen
    TxLimit = 1
    ObsLimit = 1
    Retention = 1
    PruneAge = 1
    Delays = {0, 2}
    HighWater = 0
    LowWater = 0
    MaxTx = 2
    MaxObs = 2
    MaxNow = 2
    MaxErrors = 1
SPECIFICATION FairSpec
PROPERTIES
  CursorsCatchUp
