CONSTANTS
  A = A
  B = B
  NoMember = NoMember
  Policies <- Unattended
  HaStarts <- SettledOrNot
  RestStarts <- Others
  SyncOn = TRUE
  AbortOn = FALSE
  CrashOn = TRUE
  Killable = {}
  RefuseOn = TRUE
  MaxMsgs = 2
  MaxClicks = 0
  MaxRetries = 1

SPECIFICATION Spec

\* The system stops when no message, click or retry is left.
CHECK_DEADLOCK FALSE

INVARIANTS
  ServiceContinuity
  ActiveUntouched
  SecondAfterFirst
  DoneMeansUpgraded
  

PROPERTIES
  ImplementsRolling
