\* A log append that fails is swallowed.
SPECIFICATION Spec
CONSTANTS
  Ids = {x}
  Types = {t}
  Faults = {"append"}
  MaxLamport = 3
  MaxWal = 3
INVARIANT AckedSurvives
