SPECIFICATION TreeSpec
CONSTANTS
  Procs = {p1, p2}
  Pages = {0, 1, 2, 4, 7}
  Frames = {f1, f2, f3}
  NoFrame = NoFrame
  Free = Free
  Shapes <- MCShapes
CHECK_DEADLOCK FALSE
INVARIANT Translates
INVARIANT NothingLeaks
INVARIANT FramesMatchTables
INVARIANT TLBCoherent
