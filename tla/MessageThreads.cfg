\* Two tabs and three participations of two users.
SPECIFICATION Spec
CONSTANTS
  Users = {u1, u2}
  Threads = {m1, m2}
  Rows = {p1, p2, p3}
  Tabs = {b1, b2}
  MaxMessages = 1
  None = None
SYMMETRY Interchangeable
INVARIANTS IInv DoublesUnknown
PROPERTY StaysAbandoned
