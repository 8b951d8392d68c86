SPECIFICATION Spec
CONSTANTS
  MaxSpeakers = 2
  Every = 2
  MaxVoices = 4
  MaxSentences = 5
INVARIANTS
  TypeOK
  ScreenFollowsHistory
PROPERTIES
  GroupsKeepNames
  NewVoiceIsNew
