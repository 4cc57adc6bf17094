SPECIFICATION Spec
CONSTANTS
  a = a
  b = b
  Words = {a, b}
  Contents <- Texts
  MaxBuffer = 6
  NoText = NoText
  MaxTexts = 3
  MaxId = 3
  MaxEnds = 1
INVARIANTS TypeOK NothingLostOrDoubled SizeExact NamesText Settled
