SPECIFICATION FairSpec
CONSTANTS
  CaptureChunks = 2
  QueueChunks = 2
  MaxChunks = 4
  MaxConnects = 3
INVARIANTS
  TypeOK
  AudioArrives
  GoodbyeAfterAudio
PROPERTIES
  NothingHangs
CHECK_DEADLOCK FALSE
