SPECIFICATION FairSpec
CONSTANTS
  Threads = {1, 2, 3, 4, 5}
  NoThread = 0
  Main = 1
  Worker <- FourWorkers
  Short = Short
  Long = Long
  Payload = {Short, Long, "Message", "PSU", "CMPSC", "MoNdAy", "five"}
  FrameLen <- UniformLen
  Size = 25
  SpecialMessage = Long
  Programs <- UniformPrograms
  MaxSpurious = 1
CHECK_DEADLOCK FALSE
INVARIANT TypeOK
INVARIANT LockDiscipline
INVARIANT NoReceiverForgotten
INVARIANT BlockedSenderHasNoSpace
INVARIANT NoUseAfterDestroy
INVARIANT TestsPass
PROPERTY CloseReleasesAll
PROPERTY EveryTestEnds
