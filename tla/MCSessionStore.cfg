CONSTANTS
  r1 = r1
  r2 = r2
  a = a
  b = b
  Runtime = {r1, r2}
  Message = {a, b}
  None = None
  Unlocked = FALSE
  Snapshots <- Texts
  MaxRev = 2
SPECIFICATION Spec
INVARIANT TypeOK
 
PROPERTY PromiseKept
PROPERTY OverwritesAreOwned
PROPERTY RewindsStayRewound
SYMMETRY Symmetry
