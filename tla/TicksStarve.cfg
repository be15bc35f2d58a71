CONSTANTS
  SpaceOf <- ThreeAndOne
  Scan = 3
  Limit = 2
  PerSpace = 1
  InFlight = 2
  Patience = 1
  Dispatchers <- OneDispatcher
  MaxItems = 1
  MaxFaults = 0
  d1 = d1
SPECIFICATION FairSpec
PROPERTIES DueIsLeased
