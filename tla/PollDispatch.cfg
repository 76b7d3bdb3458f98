CONSTANTS
  d1 = d1
  d2 = d2
  Devices = {d1, d2}
  Classes = {"system", "config"}
  Pano <- Shared
  Imported = {d1}
  Cap = 1
  Interval <- TwoClasses
  Backoff = 4
  StaleAfter = 2
  PollLag = 1
  Tokens = {1, 2}
  Horizon = 7
  MaxFaults = 1

SPECIFICATION FairSpec

INVARIANTS
  CapHeld
  OnePollPerClass
  SlotsAccounted

PROPERTIES
  EveryDevicePolled
