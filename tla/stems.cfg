SPECIFICATION Spec
CONSTANTS
  EnglishWords <- English
  RussianWords <- Russian
INVARIANTS StemsAreWords
PROPERTIES KeepsBeforeR1 CutsEndings
CHECK_DEADLOCK FALSE
