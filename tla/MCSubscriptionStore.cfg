CONSTANTS
  MaxId = 3
  j1 = j1
  j2 = j2
  Job = {j1, j2}
SPECIFICATION Spec
SYMMETRY JobSymmetry
CONSTRAINT Explored
INVARIANTS OneActive SomeActive QuietIsStored FilesOwned
