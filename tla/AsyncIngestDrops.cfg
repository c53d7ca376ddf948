SPECIFICATION IngestSpec
CONSTANTS
  NoTurn = NoTurn
  Turns = {t1, t2, t3}
  Workers = {wa, wb}
  QueueSize = 1
  MaxRetries = 2
  MaxCrashes = 1
INVARIANT DropsAreVisible
