SPECIFICATION Spec
CONSTANTS
  e1 = e1  e2 = e2  e3 = e3
  PqEvents = {e1}  PqWorkers = {w1, w2}  PqCloser = closer  PartitionOf <- MCPartitionOf
  MaxRows = 2  MaxFileErrors = 1
  SilverRows = {e1}  MinFiles = 2  RowsPerFile = 2  MaxCopies = 2
  ChRows = {e1}  ChWriters = {w1, w2}  ChTimer = timer  ChCloser = closer
  BatchRows = 1  MaxBuffer = 1  ChMaxRetries = 1  ChMaxFailures = 1  MaxFatal = 1  MaxSpoolErrors = 0  ChMaxStarts = 3
  Docs = {e1}  BeWriters = {w1, w2}  BeTimer = timer  BeCloser = closer
  BatchDocs = 2  BeMaxRetries = 1  MaxBadReplies = 1
PROPERTY
  SpooledNeverLost
CHECK_DEADLOCK FALSE
