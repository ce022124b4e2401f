\* A neighbour whose datagrams are lost or late, WAN and the second of two gateways
\* that come and go, two checks that may overlap and overtake each other.
SPECIFICATION LiveSpec
CONSTANTS
  Neighbours = {n}
  Interval = 3
  Ttl = 4
  MaxDelay = 1
  Off = Off
  Checks = {c1, c2}
  Gateways = 2
  Links = {0, 2}
  Idle = Idle
INVARIANTS TypeOK GhostsLeave
PROPERTIES LateIsNotLost OnlyStaleChecksFlap TierSettles NoticedPartitionHeals
