CONSTANTS
  Controller = {c1, c2}
  Root = {f, g}
  Prompt = {p, q}
  Answer = {x, y}
  Edited = Edited
  Folded = Folded
  None = None
  MaxDepth = 1
  MaxOps = 3
SPECIFICATION Spec
INVARIANT TypeOK
INVARIANT NothingIsLost
INVARIANT CompactionsAreDeclared
INVARIANT SavesKeepTheirFile
PROPERTY SavedMessagesStay
PROPERTY EndedTurnsAreSaved
SYMMETRY Symmetry
CONSTRAINT Sound
CHECK_DEADLOCK FALSE
