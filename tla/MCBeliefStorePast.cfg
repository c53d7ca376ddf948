SPECIFICATION Spec
CONSTANTS
  w1 = w1
  w2 = w2
  w3 = w3
  city = city
  status = status
  austin = austin
  seattle = seattle
  boston = boston
  gAustin = gAustin
  gSeattle = gSeattle
  gBoston = gBoston
  gOver = gOver
  Nil = Nil
  Writers <- MCWriters
  Keys <- MCKeys
  Objects <- MCObjects
  Gists <- MCGists
  Loads <- MCLoads
  Stamps <- MCStamps
  MaxTime = 2
  MaxAttempts = 2
  MaxRetried = 1
INVARIANT PastNeverDisplacesPresent
