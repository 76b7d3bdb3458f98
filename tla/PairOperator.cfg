CONSTANTS
  A = A
  B = B
  NoMember = NoMember
  Policies <- Everyone
  HaStarts <- BFirst
  RestStarts <- Alone
  SyncOn = FALSE
  AbortOn = TRUE
  CrashOn = TRUE
  Killable <- Unattended
  RefuseOn = FALSE
  MaxMsgs = 2
  MaxClicks = 3
  MaxRetries = 1

SPECIFICATION Spec

\* The system stops when no message, click or retry is left.
CHECK_DEADLOCK FALSE

INVARIANTS
  OneClickOneGate
  CheckedBeforeTouched
  StagingTouchesNothing
  FailbackOrService
