\* One document with two events, a CRDT message; one regular message is kept.
SPECIFICATION Spec
CONSTANTS
  a = a
  b = b
  c = c
  d = d
  e = e
  x = x
  Author <- MCAuthor
  Ids = {c, d, e, x}
  Senders = {a, b}
  CrdtIds = {c}
  Docs = {{d, e}}
  BusIds = {d}
  MaxCount = 1
  MaxVersion = 1
  MaxLamport = 4
  Filters <- MCFilters
INVARIANT QueryMissesOnlyStale
PROPERTIES OnlySupersededRegress GcKeepsNewest
