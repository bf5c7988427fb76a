SPECIFICATION Spec
CONSTANTS
  r1 = r1  r2 = r2
  m1 = m1  m2 = m2  m3 = m3
  Runs <- MCRuns
  Meters <- MCMeters
  Unit <- MCUnit
  InitialMeters <- MCInitialMeters
  MaxData = 1
  NoUnit = NoUnit  NoRun = NoRun
SYMMETRY MCSymmetry
INVARIANTS NoUnitForgotten LoneRunIsExact SnapshotMatchesDraft LoggedRunIsOnRecord
PROPERTIES SnapshotsAreImmutable
CHECK_DEADLOCK FALSE
