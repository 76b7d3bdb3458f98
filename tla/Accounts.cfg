CONSTANTS
  People = {"ann", "bob"}
  Objects = {1, 2}
  Ids = {1, 2, 3}
  Requests = {r1, r2}
  Tables <- EmptyOrBoth
  MaxRequests = 4
  MaxFresh = 3
  MaxRestarts = 1

SPECIFICATION Spec

SYMMETRY Anyone

\* Once the requests are spent, the system stands still.
CHECK_DEADLOCK FALSE

INVARIANTS
  TypeOK
  RevocationHolds

PROPERTIES
  AdministratorStays
  EnrolmentWhole
  LinkKept
