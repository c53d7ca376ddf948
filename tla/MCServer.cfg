SPECIFICATION ServerSpec
CONSTANTS
  mcp = mcp  hook = hook  t1 = t1  t2 = t2  t3 = t3  wa = wa  wb = wb
  q1 = q1  q2 = q2  Nil = Nil  NoTurn = NoTurn
  Items <- MCItems
  Drainers <- MCDrainers
  MaxFaults = 2
  Turns <- MCTurns
  Workers <- MCWorkers
  QueueSize = 1
  MaxRetries = 1
  MaxCrashes = 1
  Recalls <- MCRecalls
  PoolMax = 2
  Threshold = 2
INVARIANTS
  ServerTypeOK NeverLost DuplicatesExplained EveryTurnAccounted ReportsAreFinal 
PROPERTIES
  QueueDrains EveryTurnSettles EveryRecallAnswered
