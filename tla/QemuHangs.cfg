SPECIFICATION QemuFairSpec
CONSTANTS
  Stoppers = {s1}
  Environments = {{}}
PROPERTIES StopReturns
