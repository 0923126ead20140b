SPECIFICATION Spec
CONSTANTS
  Callers = {c1, c2, c3}
  Faults = {"command", "disconnect"}
INVARIANTS TypeOK OneConfigures RulesOnce WorkKept
