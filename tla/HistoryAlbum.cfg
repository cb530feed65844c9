SPECIFICATION Spec
CONSTANTS
  Requests = {r1}
  EndId = 5
  ChunkSize = 2
  Sources <- AlbumRanges
  MaxStops = 0
  MaxFailures = 1
  MaxLost = 0
  MaxRestarts = 0
INVARIANT AlbumWhole
CHECK_DEADLOCK FALSE
