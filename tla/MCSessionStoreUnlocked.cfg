CONSTANTS
  r1 = r1
  r2 = r2
  a = a
  b = b
  Runtime = {r1, r2}
  Message = {a, b}
  None = None
  Unlocked = TRUE
  Snapshots <- Texts
  MaxRev = 2
SPECIFICATION Spec
PROPERTY RewindsStayRewound
SYMMETRY Symmetry
