\* Two users, with a session each or two sessions of one of them.
SPECIFICATION Spec
CONSTANTS
  Accounts = {a, b}
  Sessions = {s1, s2}
  Threads = {t1, t2}
  Guarded = {"Worker"}
  Unguarded = {}
  RoleIds = {i1, i2}
  Asks = {i1, i2, i3}
  Principals = {p1, p2, p3}
  None = None
SYMMETRY Interchangeable
INVARIANTS IInv ActsInRole
PROPERTIES GivenOnce RefreshedSessionsKnow
\* With every identifier given out and the requests served, nothing is left to do.
CHECK_DEADLOCK FALSE
