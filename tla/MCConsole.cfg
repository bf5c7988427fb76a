SPECIFICATION ConsoleSpec
CONSTANTS
  q1 = q1  q2 = q2  u1 = u1
  Requests <- MCRequests
  Users <- MCUsers
  Payloads <- MCPayloads
  Stored <- MCStored
  SeedRows <- MCSeedRows
  MaxRows = 7
  None = None
SYMMETRY MCSymmetry
INVARIANTS ReplyIsTrue DefaultsAreSwitched ReplacementsAgree MessageIsTrue
CHECK_DEADLOCK FALSE
