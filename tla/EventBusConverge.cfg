\* Two nodes publish a version of a document each and ingest each other's.
SPECIFICATION Spec
CONSTANTS
  Nodes = {1, 2}
  Docs = {2}
  Uuids = {}
  Claims = {}
  MaxLamport = 3
INVARIANT DocsConverge
