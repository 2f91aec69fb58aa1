SPECIFICATION NoticesSpec
CHECK_DEADLOCK FALSE
CONSTANTS
  Jobs = {j1, j2}
  MaxAttempts = 2
  MaxLosses = 1
PROPERTIES
  ToldAsPromised LastingNewsArrives
