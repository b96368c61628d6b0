SPECIFICATION Spec
CONSTANTS
  Miners = {"service", "replay"}
  TplSources = {"s1", "s2"}
  Shapes = {"u", "v"}
  SafeName <- MCSafeName
  RingCap = 2
  MaxMined = 3
  MaxLives = 3
  Polls = {"p", "q"}
  Spans = {3}
  PerStep = 4
  Warmup = 2
  ZThreshold = 3
  MaxSteps = 6
  MaxTurns = 1
  MaxPolls = 4
  MaxCrashes = 1
  SampleSets <- MCSampleSets
  ColumnSets <- MCColumnSets
  MinRate = 75
  MinSamples = 3
  ScEvents <- MCEvents
  Window = 4
  Interval = 1
  Bucket = 2
  DayLength = 4
  Delay = 1
  MaxNow = 10
  MaxModels = 2
  MaxDayRuns = 1
CHECK_DEADLOCK FALSE

    
    
PROPERTIES
    CatalogueFollowsLines
    
