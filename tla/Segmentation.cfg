SPECIFICATION Spec
CONSTANTS
  MinSpeech = 2
  MinSilence = 2
  Pad = 2
  MaxLen = 4
  Search = 2
  PartialEvery = 2
  Window = 1
  ChunkSizes = {2, 3}
  MaxFrames = 8
INVARIANTS
  TypeOK
  UtterancesAreSound
  BufferIsSound
  SpeechIsForwarded
  AnchorOpensUtterance
  RunningTextIsAhead
CHECK_DEADLOCK FALSE
