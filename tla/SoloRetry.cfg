CONSTANTS
  Options <- Unattended
  Start <- Running
  Target <- Wanted
  Catalog <- Offered
  Disk <- Stored
  MaxMsgs = 1
  MaxFaults = 1
  MaxRetries = 0
  Endless = TRUE
  Attempts = 2
  GoneLimit = 2
  Consecutive = 2
  WrongLimit = 2

SPECIFICATION Tended
CHECK_DEADLOCK FALSE
PROPERTIES
  RetryConverges
