SPECIFICATION Spec
CONSTANTS
  FileOrder <- MCFileOrder
  Clients = {"c1"}
  MaxVersions = 3
  MaxRemovals = 1
  MaxMoves = 1
  Lines <- MCLines
  Catalogues <- MCCatalogues
  MaxReloads = 1
  MapKeys = {"a", "b"}
  MapTexts = {"7", "x"}
  PathNames = {"class_uid", "category_uid", "activity_id", "type_uid", "metadata", "uid", "log_hash", "version", "src", "ip", "time"}
  Definitions <- MCDefinitions
  EnrRecords <- MCRecords
  Chain <- MCChain
  Watched = {TRUE, FALSE}
  IocPaths = {"f", "g"}
  MaxEnriched = 2
  MaxIocChanges = 2
  HeaderFields <- MCHeaderFields
  Values <- MCValues
  SdValues <- MCSdValues
  SdTails <- MCSdTails
  DissectTexts <- MCDissectTexts
  DissectPatterns <- MCDissectPatterns
  Times <- MCTimes
  Zones <- MCZones
  ZeekLogs = {"a","b","c"}
  LogLines <- MCLogLines
  StreamOption <- MCStreamOption
  MaxOvertakes = 1
CHECK_DEADLOCK FALSE
INVARIANTS
    RegistryFollowsFiles
    EventsAccounted
    ToolsAgree
    
    EnginesReadBack

    
