CONSTANTS
  Pairs = {p, q}
  Workers = {w}
  Nobody = Nobody
  Lost = Lost
  Script <- WaitThenGate
  WaitTicks = 1
  Redelivery = "later"
  MaxMsgs = 2
  MaxRetries = 0
  MaxKills = 1
  MaxOverruns = 1

SPECIFICATION FairSpec

\* A deleted job ends the system.
CHECK_DEADLOCK FALSE

PROPERTIES
  InFlightEnds
  JobCloses
  AbortHealsParked
