\* All the files of four entities: any of them may require any other.
SPECIFICATION PopulatorFairSpec
CONSTANTS
  e1 = e1  e2 = e2  e3 = e3  e4 = e4
  Entities = {e1, e2, e3, e4}
  Listed <- InOrder
INVARIANTS PopulatorInv StoredInOrder OnlyChainsAreGivenUp
PROPERTIES Ends
\* The populator is a program that ends.
CHECK_DEADLOCK FALSE
