\* Overlapping exchanges between three nodes among writes, trims and losses.
SPECIFICATION Spec
CONSTANTS
  Nodes = {a, b, c}
  Ids = {x, y}
  MaxLamport = 4
  MaxTrims = 1
  MaxExchanges = 2
SYMMETRY Symmetry
INVARIANTS LamportOrder DeltaSuffices
