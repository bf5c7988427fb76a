SPECIFICATION Spec
CONSTANTS
  plain = plain  early = early
  gw = gw  s1 = s1  s2 = s2
  Readings <- MCReadings
  BufferedReadings <- MCReadings
  Key <- MCKey
  Meter <- MCMeter
  Timestamp <- MCTimestamp
  Overflow = {}
  Unserializable = {}
  Gateways <- MCGateways
  Slots <- MCSlots
  NoSlot = NoSlot
  NoGateway = NoGateway
  UnknownSerial = UnknownSerial
  ApiKey = ApiKey
  BadToken = BadToken
  InitialMeters <- MCMeters
  Configs <- MCConfigs
  GoodConfig <- Right
  MaxBatch = 2
  InsertChunk = 2
  BatchSize = 2
  MaxRetries = 1
  RetryBase = 1
  MaxBackoff = 1
  LongestWait = 1
  RetryCap = 1
  MaxReprocess = 1
  MaxAge = 5
  MaxFuture = 0
  Horizon = 0
SYMMETRY MCSymmetry
INVARIANTS TypeOK SentIsStored GivenUpIsJournaled
PROPERTIES SettledForGood ImplementsStoreAndForward
