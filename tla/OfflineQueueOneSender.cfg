SPECIFICATION Spec
CONSTANTS
  Nil = Nil
  Items = {1, 2}
  Drainers = {mcp, hook}
  MaxFaults = 2
INVARIANT OneSender
