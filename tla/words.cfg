SPECIFICATION Spec
CONSTANTS
  Latin <- Letters
  LowerOf <- Lower
  StopWords <- Stops
  Unstemmable <- Throwing
  HtmlLimit = 5
  Settings <- AllSettings
  Inputs <- AllInputs
  Queries <- AllQueries
  MaxQueryLength = 7
  Nul = "NUL"
  ContextSymbols = 3
INVARIANTS TypeOK PiecesCover TokensInPlace PhrasesExact ContextsTrue
PROPERTY ScansAdvance
CHECK_DEADLOCK FALSE
