SPECIFICATION Spec
CONSTANTS
  Threads = {1, 2, 3}
  NoThread = 0
  Main = 1
  Worker <- TwoWorkers
  Short = Short
  Long = Long
  Payload = {Short, Long}
  FrameLen <- MixedLen
  Size = 18
  SpecialMessage = Long
  Programs <- MixedPrograms
  MaxSpurious = 0
CHECK_DEADLOCK FALSE
INVARIANT SpaceAccounted
INVARIANT CloseWakesAll
INVARIANT EmptyQueueWakesSender
PROPERTY ImplementsChannel
