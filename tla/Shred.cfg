SPECIFICATION FairSpec
CONSTANTS
  MaxSize = 5
  BlockSize = 2
  SampleSize = 1
  Shredders = {p1, p2}
  Environments = {{"io", "cancel"}, {"writer"}}
INVARIANTS TypeOK ZeroedBeforeUnlink OneRecord
PROPERTIES ShredReturns
