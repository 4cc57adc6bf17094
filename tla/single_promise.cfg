SPECIFICATION Spec
CONSTANTS
  Tokens = {t1, t2}
  BlockMasks = {1, 3, 48, 64}
  BaseRows = 1
  Span = 64
  CopyRows = 2
  NoToken = NoToken
  Hole = Hole
  MaxIncoming = 1
  MaxRows = 3
  MaxEnds = 1
PROPERTIES KeepsPromise CallAdvances CreateIndexReturns
