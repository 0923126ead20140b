SPECIFICATION RestartFairSpec
CONSTANTS
  MaxSeq = 1
  Base = 2
  Room = 2
  Deleters = {d1}
  Sweeper = sweeper
  MaxLives = 2
  Environments = {{"disconnect", "host", "api", "slow", "shred", "unlink"},
    {"host", "copy", "exit", "unlink"}}
INVARIANTS NoResidueAfterRestart SoundOverLeftovers
PROPERTIES OrphansUndisturbed PostAnswered DeleteAnswered StopAllReturns
