SPECIFICATION MemorySpec
VIEW MemoryView
CONSTANTS
  valueA = valueA  valueB = valueB  w1 = w1  w2 = w2  Nobody = Nobody
  Places <- MCPlaces
  Values <- MCValues
  Walkers <- MCWalkers
  ChunkSize = 2
  MaxRetries = 1
  MaxStarts = 3
  MaxTroubles = 2
  MaxLiveWrites = 1
  dl = dl  dp = dp  nl = nl  np = np  xa = xa  xb = xb  g1 = g1  g2 = g2
  NoDoc = NoDoc
  Docs <- MCDocs
  Rules <- MCRules
  Texts <- MCTexts
  Lineage <- MCLineage
  NsOf <- MCNsOf
  Score <- MCScore
  Prohibitions <- MCProhibitions
  Windows <- MCWindows
  HunkHits <- MCHunkHits
  Ingesters <- MCIngesters
  Versions = {1, 2}
  PoolCap = 2
  MinOverlap = 2
  MaxIngests = 2
  MaxDeviations = 1
  su = su  sa = sa  sb = sb  nightly = nightly  asked = asked
  NoSubject = NoSubject
  Subjects <- MCSubjects
  Sayings <- MCSayings
  Stated <- MCStated
  Passes <- MCPasses
  Nightly = nightly
  Dates = {1, 2}
  MinFacts = 1
  MaxFacts = 2
  MaxRuns = 2
  p1 = p1  p2 = p2  ss1 = ss1  ss2 = ss2
  Segmenters <- MCSegmenters
  Sessions <- MCSessions
  Moments = {0, 2}
  Gap = 1
  MaxEpisodes = 2
  MaxTurns = 3
  MaxExtracted = 1
  MaxSegmentings = 2
  n1 = n1  n2 = n2  v1 = v1  v2 = v2  NoValue = NoValue
  Secrets <- MCSecrets
  Plaintexts <- MCPlaintexts
  MaxSets = 3
  MaxRotations = 2
  rawTurns = rawTurns  semantic = semantic  small = small  large = large
  Empty = Empty
  Vectored <- MCVectored
  Dims <- MCDims
  MaxVectors = 3
  MaxMigrations = 3
  q1 = q1  q2 = q2  NoCap = NoCap
  Askers <- MCAskers
  Sizes = {1, 3}
  TrueCost = 2
  Samples = {2, 3, 9}
  Budget = 6
  MinCap = 1
  MaxCap = 2
  ExplicitCap = NoCap
  Scale = 6
  Scores = {6, 12}
  MaxRerankFaults = 2
  cmd1 = cmd1  cmd2 = cmd2
  Commands <- MCCommands
  MaxIssued = 3
  MaxRekeys = 1
  MaxReleases = 1
  MaxCommandKills = 1
  pa = pa  pb = pb  t1 = t1  t2 = t2
  Papers <- MCPapers
  PaperTexts = {0, 1, 2}
  Weight <- MCWeight
  WindowBack = 2
  Drivers <- MCDrivers
  MaxEdits = 3
  MaxCommits = 4
  MaxLaunchings = 2
  MaxPostFailures = 1
  MaxSetups = 3
  MaxSetupTroubles = 2
INVARIANTS
  MemoryTypeOK ReconcileSound  DerivedSound  RerankSound
CHECK_DEADLOCK FALSE
