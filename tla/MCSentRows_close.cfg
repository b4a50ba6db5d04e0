SPECIFICATION SentSpec
CONSTANTS
  Row = {p1}
  WaitTicks = 2
  MaxSends = 2
PROPERTIES
  CloseStaysSaid
CHECK_DEADLOCK FALSE
