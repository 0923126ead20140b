SPECIFICATION QemuFairSpec
CONSTANTS
  Stoppers = {s1, s2, s3}
  Environments = {{"disconnect", "start", "crash"}, {"disconnect", "start", "crash", "io"}}
INVARIANTS QemuTypeOK StoppedIsGone WithdrawnIsGone DestroyedOnce NothingLeft
PROPERTIES GroupStopReturns AnsweredOnceGone ImplementsLife
