SPECIFICATION Spec
CONSTANTS
  Backends = {b1, b2, b3}
  Requests = {r1}
  Nil = Nil
  MissThreshold = 2
  MaxHeals = 1
  MaxUpgrades = 1
PROPERTY GivesUpOnlyWhenDown
