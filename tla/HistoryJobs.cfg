SPECIFICATION FairSpec
CONSTANTS
  Requests = {r1, r2}
  EndId = 5
  ChunkSize = 2
  Sources <- AlbumRanges
  MaxStops = 1
  MaxFailures = 1
  MaxLost = 1
  MaxRestarts = 1
INVARIANTS SessionConsistent Accounted CompletedTells TailRead
PROPERTIES StopNotForgotten JobsEnd
CHECK_DEADLOCK FALSE
