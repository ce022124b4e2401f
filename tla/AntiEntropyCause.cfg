\* A message and its successor are exchanged.
SPECIFICATION Spec
CONSTANTS
  Nodes = {a, b}
  Ids = {x, y}
  MaxLamport = 4
  MaxTrims = 0
  MaxExchanges = 1
INVARIANT CausalOrder
