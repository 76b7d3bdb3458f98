CONSTANTS
  Sites <- Pair
  Home <- ThePano
  Partner <- Mates
  Panos = {"p"}
  Ids = {1, 2, 3, 4, 5, 6}
  Filters <- Imports
  MaxRequests = 1
  MaxSwaps = 0
  MaxFaults = 0

SPECIFICATION Spec

\* With its Panorama deleted and no request left, an empty inventory stands still.
CHECK_DEADLOCK FALSE

INVARIANTS
  LinkedTogether
