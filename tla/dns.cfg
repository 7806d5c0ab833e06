\* One zone, jobs, failures and edits without number, in any order.
CONSTANTS
  Ids = {i1, i2, i3, i4}
  Records <- MCRecords
  Guides <- MCGuides
  NoRecord = NoRecord

SPECIFICATION Spec
SYMMETRY IdSymmetry

INVARIANTS
  TypeOK

PROPERTIES
  UnrelatedKept
  KeepsPromise
