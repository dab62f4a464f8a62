\* Two requests that overlap on one controller: what the client is told.
SPECIFICATION Spec
CONSTANTS
  r1 = r1  r2 = r2  r3 = r3  c1 = c1  c2 = c2  t1 = t1  t2 = t2
  Requests = {r1, r2}
  Controllers = {c1, c2}
  Threads = {t1, t2}
  Route <- SameController
  MaxArrivals = 2
  NoTx = NoTx
  NoThread = NoThread
  PoolSize = 2
SYMMETRY ThreadSymmetry
INVARIANTS ViewMeansKept
\* The two requests of the instance may both have been served.
CHECK_DEADLOCK FALSE
