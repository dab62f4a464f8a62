\* One tab publishes a job while it changes its descriptor.
SPECIFICATION Spec
CONSTANTS
  Jobs = {j1}
  Descriptors = {d1, d2}
  Duties = {u1, u2}
  Clients = {a}
  Percentages = {50, 100}
  MaxVersion = 2
  NoRow = NoRow
SYMMETRY Interchangeable
INVARIANT PublishedIsFull
\* A deleted job leaves nothing to do.
CHECK_DEADLOCK FALSE
