\* Five nodes, a message relayed with the signature of its writer.
SPECIFICATION Spec
CONSTANTS
  Nodes <- Five
  Peers <- Kite
  Ids = {x}
  DEFAULT_TTL = 3
CHECK_DEADLOCK FALSE
INVARIANT AuthenticVerifies
