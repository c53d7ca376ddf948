SPECIFICATION Spec
CONSTANTS
  Passes = {pusher, admin}
  Pollers = {}
  Nil = Nil
  Batch = 2
  MaxFailures = 2
  MaxTurns = 3
  MaxCrashes = 1
INVARIANTS
  AtLeastOnce
CHECK_DEADLOCK FALSE
