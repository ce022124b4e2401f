\* Five nodes, packets that overtake each other and are lost.  The system rests
\* when nothing is under way.
SPECIFICATION LiveSpec
CONSTANTS
  Nodes <- Five
  Peers <- Kite
  Ids = {x}
  DEFAULT_TTL = 3
CHECK_DEADLOCK FALSE
INVARIANTS PathsAreSimple HopsHold
PROPERTIES FloodReaches FloodEnds
