CONSTANTS
  A = A
  B = B
  NoMember = NoMember
  Policies <- PrimaryOnly
  HaStarts <- BFirst
  RestStarts <- Alone
  SyncOn = FALSE
  AbortOn = TRUE
  CrashOn = FALSE
  Killable = {}
  RefuseOn = FALSE
  MaxMsgs = 2
  MaxClicks = 0
  MaxRetries = 0

SPECIFICATION Spec

\* The system stops when no message, click or retry is left.
CHECK_DEADLOCK FALSE

PROPERTIES
  AbortHeals
