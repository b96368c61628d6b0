SPECIFICATION Spec
CONSTANTS
  Digests = {"a", "b", "c"}
  MaxLeaves = 8
  MaxUids = 3
  MaxDays = 2
  LeavesPerBatch = 2
  MaxCorrupt = 1
  MaxVerifies = 1
  QEvents <- MCQEvents
  QFilters <- MCQFilters
  PageSize = 2
  QSpans <- MCQSpans
  RecordFiles <- MCRecordFiles
  MaxWalks = 1
CHECK_DEADLOCK FALSE
INVARIANTS
    RootCommits
    
    
