CONSTANTS
  Pairs = {p, q}
  Workers = {v, w}
  Nobody = Nobody
  Lost = Lost
  Script <- GateAndWait
  WaitTicks = 1
  Redelivery = "later"
  MaxMsgs = 2
  MaxRetries = 1
  MaxKills = 1
  MaxOverruns = 0

SPECIFICATION Spec

\* A deleted job ends the system.
CHECK_DEADLOCK FALSE

SYMMETRY Interchangeable

INVARIANTS
  OneDriver
  InFlightCarried
  
