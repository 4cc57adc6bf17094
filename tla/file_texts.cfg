SPECIFICATION Spec
CONSTANTS
  Handles = {h1, h2}
  Sizes = {0, 3}
  Chunk = 2
  StrayIds = {}
  CounterSpan = 1
  Hole = Hole
  MaxFiles = 2
  MaxEnds = 1
SYMMETRY Symmetry
INVARIANTS TypeOK FilesKept RegionsOwned ReadsOwnBytes
