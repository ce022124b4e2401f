\* Every event of the node, with and without a connectivity monitor; hanging
\* answers, failing snapshots, trims and restarts included.
SPECIFICATION LiveSpec
CONSTANTS
  Ids = {x, y}
  None = None
  Modes = {TRUE, FALSE}
  MaxRuns = 2
INVARIANTS TypeOK OneRun SyncedMeansAccepted NoNeedlessPush
PROPERTIES RunsEnd RegainedTierPushes
