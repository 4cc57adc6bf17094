SPECIFICATION Spec
CONSTANTS
  Tokens = {word, colon, blank}
  ColonTokens = {colon}
  BlankTokens = {blank}
  NoMeta = NoMeta
  Hole = Hole
  MaxBatch = 2
  MaxRows = 2
  MaxFiles = 2
  MaxLines = 4
  MaxEnds = 1
INVARIANTS TypeOK FilesNotReused ListsKept
PROPERTIES KeepsPromise
