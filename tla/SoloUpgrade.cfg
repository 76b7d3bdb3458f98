CONSTANTS
  Options <- AllOptions
  Start <- Running
  Target <- Wanted
  Catalog <- Offered
  Disk <- Stored
  MaxMsgs = 2
  MaxFaults = 1
  MaxRetries = 1
  Endless = FALSE
  Attempts = 2
  GoneLimit = 2
  Consecutive = 2
  WrongLimit = 2

SPECIFICATION Timely

\* A job that has ended, with no message left, stands still.
CHECK_DEADLOCK FALSE

INVARIANTS
  TypeOK
  DoneMeansUpgraded
  
  ImagesKept

PROPERTIES
  RestartsIntoTarget
  Settles
