SPECIFICATION Spec
CONSTANTS
  Handles = {h1, h2}
  Sizes = {0, 3}
  Chunk = 2
  StrayIds = {2}
  CounterSpan = 1
  Hole = Hole
  MaxFiles = 1
  MaxEnds = 1

PROPERTIES LoopAdvances LoopEnds
