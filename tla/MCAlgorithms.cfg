SPECIFICATION MCAlgorithmsSpec
CONSTANTS
  TopRows = 2
  ScatterCap = 4
  MapNodes = {10, 11, 20}
  MaxPlaces = 3
  ChartValues <- MCChartValues
  ChartLen = 3
  PointCap = 4
  MaxSeries = 2
  MaxRows = 3
  Bytes = 4
  MaxKeys = 3
  MaxNodeRows = 4
  MaxTraces = 3
  MaxLinks = 2
  ListCap = 2
  MaxLexemes = 5
  HrNodes = {11, 12, 21, 31}
  HrPlaces = {0, 1, 4}
  HrHops = 3
  MAX_HOP_DIST = 2
  REGION_RADIUS = 2
CHECK_DEADLOCK FALSE
INVARIANTS
  MapComputes
  AnalyticsComputes
  
  FilterComputes
  HopsCompute
