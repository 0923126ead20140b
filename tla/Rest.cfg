SPECIFICATION Spec
CONSTANTS
  Requests = {r1, r2, r3}
  MaxSeq = 2
  IdArgs <- MCIdArgs
SYMMETRY RequestSymmetry
INVARIANTS TypeOK Linear CreatorKnows ServedAsMeant
PROPERTIES ChangesAsAsked
