SPECIFICATION Spec
CONSTANTS
  plain = plain  twin = twin  early = early
  g1 = g1  g2 = g2  s1 = s1  s2 = s2
  Readings <- MCReadings
  Key <- MCKey
  Meter <- MCMeter
  Timestamp <- MCTimestamp
  Overflow = {}
  Gateways <- MCGateways
  Slots <- MCSlots
  NoGateway = NoGateway
  UnknownSerial = UnknownSerial
  ApiKey = ApiKey
  BadToken = BadToken
  InitialMeters <- MCMeters
  Credentials <- MCCredentials
  MaxBatch = 2
  InsertChunk = 1
  MaxRequests = 2
  MaxReprocess = 6
  MaxAge = 5
  MaxFuture = 0
  Horizon = 1
SYMMETRY MCSymmetry
INVARIANTS ReplyIsTrue InsertedOnce StoredWasAcceptable
CHECK_DEADLOCK FALSE
