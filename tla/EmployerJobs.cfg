\* Two tabs on one job that may get two descriptors and two duties.
SPECIFICATION Spec
CONSTANTS
  Jobs = {j1}
  Descriptors = {d1, d2}
  Duties = {u1, u2}
  Clients = {a, b}
  Percentages = {50, 100}
  MaxVersion = 1
  NoRow = NoRow
SYMMETRY Interchangeable
INVARIANT IInv
PROPERTIES CascadesAreExact AppliedJobsStay WorkloadsFit DescriptorIsReplaced
\* A deleted job leaves nothing to do.
CHECK_DEADLOCK FALSE
