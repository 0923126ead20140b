SPECIFICATION Spec
CONSTANTS
  MaxSeq = 1
  Base = 2
  Room = 2
  Deleters = {d1, d2}
  Sweeper = sweeper
  Environments = {{"disconnect", "host", "copy", "api", "slow", "exit", "shred", "unlink"},
    {"host", "api", "exit"},
    {"host", "copy", "exit", "shred", "unlink"},
    {"slow", "shred"}}
SYMMETRY DeleterSymmetry
INVARIANTS TypeOK NeverWedged DestructionAudited OneSuccessfulDelete FailedLaunchReleasedIfAttended NoResidue
  StopAllTearsDown
PROPERTIES WithdrawnFromStopped ImplementsLife
