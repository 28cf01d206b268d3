CONSTANTS
  Walk <- MCWalk
  ConflictCopy <- Copy
  Start <- MCStart
  AppEdits <- MCAppEdits
  PeerEdits <- MCPeerEdits
  Chunked <- MCChunked
  DirMode = 1
  Edited <- MCEdited
  MaxRequests = 2
  MaxEvents = 2
SPECIFICATION Spec
INVARIANTS InboundIsForeign
PROPERTIES SavedMeansPublished PeerVersionKept
CHECK_DEADLOCK FALSE
