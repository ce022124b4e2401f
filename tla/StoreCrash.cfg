\* Two messages, any call order, a crash or a failed file operation anywhere.
SPECIFICATION Spec
CONSTANTS
  Ids = {x, y}
  Types = {t}
  Faults = {"persist", "truncate"}
  MaxLamport = 3
  MaxWal = 3
SYMMETRY Symmetry
INVARIANTS StoreInv AckedSurvives DeletedStaysGone LamportOrder IndexAgrees ReplayIsLoop
PROPERTY ImplementsMap
