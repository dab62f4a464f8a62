\* Two requests in flight, and room for two rows of any kind.
SPECIFICATION Spec
CONSTANTS
  u = u  v = v  x = x  y = y  j = j  r1 = r1  r2 = r2
  Users = {u, v}
  References = {x, y}
  Jobs = {j}
  Forms <- SomeForms
  Requests = {r1, r2}
  MaxRows = 2
  None = None
SYMMETRY RequestSymmetry
INVARIANTS IInv CollisionsOverlap
PROPERTIES OnlyOverlapsRepeat ImplementsRegistry
