\* Two tabs and two entities that come to their third version.
SPECIFICATION Spec
CONSTANTS
  Ids = {e1, e2}
  Values = {v1, v2, v3}
  Clients = {a, b}
  MaxVersion = 2
  NoRow = NoRow
  NoForm = NoForm
SYMMETRY Interchangeable
INVARIANTS IInv
PROPERTIES NoLostUpdate DeletesWhatItValidated ImplementsLinkedRecords
\* With every identifier used up and no entity left there is nothing to do.
CHECK_DEADLOCK FALSE
