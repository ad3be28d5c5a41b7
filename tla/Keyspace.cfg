SPECIFICATION MCSpec
CONSTANTS
  Alphabet = {0, 1, 2, 97, 169, 195, 255}
  MaxText = 5
  Strings <- MCStrings
  Tenants <- MCTenants
  Payloads <- MCPayloads
  ScanPrefixes <- MCPrefixes
  Limits = {0, 1}
  Ttls = {0, 1}
  QUOTA_KEY <- MCQuotaKey
  USAGE_KEY <- MCUsageKey
  MaxScanLimit = 2
  SCAN_CHUNK_SIZE = 1
  Shards = 2
  Layouts <- MCLayouts
  MaxWrites = 3
  MaxClock = 1
  None = None
  Points <- MCPoints
  MaxRanges = 3
  NodeIds = {n1, n2, n3, n4}
  Scores = {0, 1, 2}
  Open = Open
CHECK_DEADLOCK FALSE
INVARIANTS
  TypeOK
  ScanExact
  BootScanExact
  DecodeExact
  BoundsExact
  LookupExact
  HrwMovesLittle
