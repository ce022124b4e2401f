\* Late, repeated and skipped merges of sets and of counters.
SPECIFICATION CrdtSpec
CONSTANTS
  Replicas = {p, q, r}
  Elements = {x}
  Tags = {t1, t2}
  Amounts = {1, 2}
  MaxIncrements = 2
  MaxSnapshots = 1
INVARIANTS CrdtInv AddWins Converges CountsEachOnce
