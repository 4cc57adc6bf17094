SPECIFICATION Spec
CONSTANTS
  Tokens = {t1, t2}
  BlockMasks = {1, 2, 4, 48, 64}
  BaseRows = 1
  Span = 64
  CopyRows = 1
  NoToken = NoToken
  Hole = Hole
  MaxIncoming = 2
  MaxRows = 3
  MaxEnds = 1
SYMMETRY Symmetry
INVARIANT SavedIndexSurvives
