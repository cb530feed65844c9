SPECIFICATION FairSpec
CONSTANTS
  LastPost = 3
  Targets <- ThreeTargets
  Saved = {"saved"}
  Uploads = {"media", "saved"}
  Droppable = {1}
  Scenarios <- AllScenes
  NetRetries = 1
INVARIANTS CacheConsistent LossExplained Explained
PROPERTIES PostsEnd
CHECK_DEADLOCK FALSE
