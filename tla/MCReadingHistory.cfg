SPECIFICATION Spec
CONSTANTS
  k1 = k1  k2 = k2  k3 = k3
  q1 = q1  q2 = q2
  Keys <- MCKeys
  Requests <- MCRequests
  None = None
  Time <- MCTime
  Value <- MCValue
  Instants <- MCInstants
  MonthLength = 3
  Multiplier = 2
  Meters <- MCMeters
  Tariffs <- MCTariffs
SYMMETRY MCSymmetry
INVARIANTS LineageIsRecorded LineageIsAcyclic LogsAreTrue
  AdjacentPeriodsAddUp ChartAgreesWithTotal DraftIsReference
PROPERTIES HistoryIsPermanent
