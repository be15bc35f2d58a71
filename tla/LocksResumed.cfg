CONSTANTS
  Claims = {c1}
  Completions = {t1}
  Spaces = {1}
  FirstLives = {"readOnly", "suspended"}
  MaxSteps = 3
  c1 = c1
  t1 = t1
SPECIFICATION Spec
INVARIANTS NoWaitCycle
CHECK_DEADLOCK FALSE
