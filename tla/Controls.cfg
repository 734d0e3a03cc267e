\* a timeout of two ticks, clicks up to a tick late
CONSTANTS
  DOUBLE_CLICK = 2
  MaxLag = 1
  MaxKeys = 2
  MaxInbox = 2
SPECIFICATION Spec
INVARIANTS
  TypeOK
  ClicksCountedOnce
  PauseSticks
  PlaybackResumes
