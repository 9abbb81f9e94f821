CONSTANTS
  NaN = NaN
  Groups <- MCGroups
  FormTexts <- MCFormTexts
  JsonInputs <- MCJsonInputs
  RingCapacity = 3
  Elements <- MCElements
  Unset = Unset
  FilterSize = 2
  Samples = {1, 2, 3}
  Sigmas = {1, 2}
  MaxSamples = 5
  BufferSizes = {11, 12, 19, 34}
  Messages <- MCMessages
  MaxAvailable = 3
  SizeModulus = 64
  MaxBlinks = 3
  Sensors = {s1, s2}
  Nobody = Nobody
  BufferLen = 8
  Pieces <- MCPieces
  LineLens = {4, 5}
  MaxLen = 9
  Timeout = 5
  Update = 2
  LoopTime = 2
SPECIFICATION PartsSpec
INVARIANTS
  RingIsSequence
  WindowIsRecent
  ReadsWhatWasSent
  BlinksAsAsked
  MotionNotLost
  BitesOnlyStuck
PROPERTIES
  RestartRestores
  UneditedKept
  SplitsAtSpaces
\* a packet that is full, or has its CRC, takes nothing more
CHECK_DEADLOCK FALSE
