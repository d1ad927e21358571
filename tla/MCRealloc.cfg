SPECIFICATION Spec
CONSTANTS
  Ids = {a, b, c}
  Sizes = {2, 4, 6, 11}
  NumLists = 6
  NumSlabs <- MCNumSlabs
  NumMaps = 2
  Slots = 1
  MaxHeap = 30
SYMMETRY Symmetry
INVARIANT ReallocKeepsBytes
