SPECIFICATION FairSpec
CONSTANTS
  Passes = {pusher, admin}
  Pollers = {owner}
  Nil = Nil
  Batch = 1
  MaxFailures = 2
  MaxTurns = 2
  MaxCrashes = 1
INVARIANTS
  SkipsExplained
  DeactivatedByFailures
PROPERTIES
  EveryTurnPushed
CHECK_DEADLOCK FALSE
