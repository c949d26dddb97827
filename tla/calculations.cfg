CONSTANTS
  p1 = p1
  p2 = p2
  v1 = v1
  junk = junk
  Public = {p1, p2}
  Private = {v1}
  Junk = {junk}
  MaxRetryAfterSeconds = 86400
  ModelMaxInputChars = 3
  ChunkOverlap = 2
  WindowTokenBudget = 4
  ChunkOverlapTokens = 1
  MaxMetadataBytes = 8
  MaxReportedKeys = 2
  Requests <- MCRequests
  Responses <- MCResponses
  Times = {5}
  Policies <- MCPolicies
  GuardPolicyEntityTypes = {"email"}
  Scans <- MCScans
  RedactedTexts <- MCRedactedTexts
  MetadataMaps <- MCMaps
SPECIFICATION Spec
INVARIANTS AbiAgrees ClosestHopDecides CallerIsTold ScannedAsOnePiece RoundTrip MetadataIsAccounted
