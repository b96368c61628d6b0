SPECIFICATION Spec
CONSTANTS
  h1 = h1  h2 = h2  r1 = r1  r2 = r2
  ReadSize = 3  MaxLines = 3  MaxRotations = 1  MaxTruncations = 1  MaxRejects = 1  MaxRestarts = 1
  Streams <- MCStreams  MaxFrame = 3
  Datagrams = {u1, u2}  Framed = {t1}  Requests <- MCRequests  Replayed <- MCReplayed  Slots = 1
CHECK_DEADLOCK FALSE
INVARIANTS
    FramesIndependentOfChunks
PROPERTIES
    LinesArrive
    
