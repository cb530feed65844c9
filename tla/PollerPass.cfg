SPECIFICATION FairSpec
CONSTANTS
  Targets <- SavedAndChannel
  Accounts = {1, 2}
  MaxMsg = 3
  AlbumOf <- AlbumAtTwo
  MaxChanges = 2
  MaxFailures = 1
INVARIANTS TypeOK CursorCovers StartRespected
PROPERTIES CursorNeverBack CatchesUp
CHECK_DEADLOCK FALSE
