\* Two tabs, two applications decided up to twice, a chart of two days; day 2 is short.
SPECIFICATION Spec
CONSTANTS
  m1 = m1  m2 = m2  j1 = j1  j2 = j2
  midnight = midnight  a_moment_later = a_moment_later
  Employers = {m1, m2}
  Workers = {w1}
  Administrator = administrator
  Jobs = {j1, j2}
  Employer <- EmployerOf
  Ids = {e1, e2}
  Times = {midnight, a_moment_later}
  Midnight = midnight
  Minute <- MinuteOf
  Window = 2
  ShortDays = {2}
  Tabs = {a, b}
  MaxDay = 4
  MaxVersion = 2
  None = None
SYMMETRY Interchangeable
INVARIANTS IInv
PROPERTIES LabelsTellTheDays
