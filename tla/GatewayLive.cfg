SPECIFICATION Spec
CONSTANTS
  Backends = {b1, b2, b3}
  Requests = {r1}
  Nil = Nil
  MissThreshold = 1
  MaxHeals = 1
  MaxUpgrades = 1
PROPERTIES  UpgradeEnds
