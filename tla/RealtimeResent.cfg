SPECIFICATION Spec
CONSTANTS
  LastPost = 3
  Targets <- ThreeTargets
  Saved = {"saved"}
  Uploads = {"media", "saved"}
  Droppable = {1}
  Scenarios <- OneAlbum
  NetRetries = 1
PROPERTIES AnsweredNotResent
CHECK_DEADLOCK FALSE
