CONSTANTS
  Pollers = {p, q}
  Nobody = Nobody
  Levels <- Usages
  Thresholds = {75, 90}
  Sustains = {1, 2}
  SeededRules <- Seeded
  NewRules <- Added
  Settings <- Edits
  RuleIds = {1, 2, 3}
  AlertIds = {1, 2}
  MaxUpsets = 1

SPECIFICATION FairSpec

\* Deleting the device ends the system.
CHECK_DEADLOCK FALSE

INVARIANTS
  TypeOK
  OneOpenPerMetric
  OpensSustained

PROPERTIES
  CriticalUsageAlerts
  QuietUsageClears
