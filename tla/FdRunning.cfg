SPECIFICATION Spec
CONSTANTS
  MaxSeq = 1
  Base = 2
  Room = 2
  Deleters = {d1}
  Sweeper = sweeper
  Environments = {{}}
INVARIANTS RegisteredIsRunning
