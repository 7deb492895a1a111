SPECIFICATION Spec
CONSTANTS
  Rendered <- MCRendered
  Zones <- MCZones
  Shifts <- MCShifts
  MaxDelay = 3
  MaxFeeds = 2
  None = None
CHECK_DEADLOCK FALSE
INVARIANTS
  TypeOK
  OffByAtMostOne
  OrderIsKept
  RightWhileCalendarsAgree
