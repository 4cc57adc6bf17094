SPECIFICATION Spec
CONSTANTS
  Handles = {h1, h2}
  Sizes = {1}
  Chunk = 2
  StrayIds = {}
  CounterSpan = 4
  Hole = Hole
  MaxFiles = 2
  MaxEnds = 1
SYMMETRY Symmetry
PROPERTY SavesKeepTexts
