\* Two nodes publish versions of a document and another event, ingest, exchange,
\* take a client's message, reindex and restart.
SPECIFICATION Spec
CONSTANTS
  Nodes = {1, 2}
  Docs = {2}
  Uuids = {1, 3}
  Claims = {3}
  MaxLamport = 3
INVARIANTS IndexCoversStore ClockCovers CausalityExact GraphIsReduction
PROPERTY DocsNeverRegress
