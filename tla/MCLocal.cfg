SPECIFICATION LocalSpec
VIEW LocalView
CONSTANTS
  b1 = b1  b2 = b2  b3 = b3  r1 = r1
  Backends <- MCBackends
  Requests <- MCRequests
  Nil = Nil
  MissThreshold = 2
  MaxHeals = 1
  MaxUpgrades = 1
  g1 = g1  g2 = g2  g3 = g3  g4 = g4  s1 = s1  s2 = s2
  NoGateway = NoGateway
  Gateways <- MCGateways
  Shells <- MCShells
  MaxCommands = 3
  MaxCrashes = 1
  x1 = x1  x2 = x2
  Calls <- MCCalls
  MaxInstalls = 3
  d1 = d1  d2 = d2  proc1 = proc1  proc2 = proc2
  mcpFile = mcpFile  settingsFile = settingsFile
  Dispatches <- MCDispatches
  ProcessOf <- MCProcessOf
  Slots <- MCSlots
  MaxEdits = 2
  MaxDeaths = 1
  a1 = a1  a2 = a2  w1 = w1
  Agents <- MCAgents
  Works <- MCWorks
  HopLimit = 4
  ListLimit = 3
  MaxRows = 4
  MaxFaults = 1
  h1 = h1  h2 = h2  ownRule = ownRule  linkedRule = linkedRule
  NoFile = NoFile
  Runs <- MCRuns
  Rules <- MCRules
  Level <- MCLevel
  Home <- MCHome
  MaxRuleChanges = 1
  MaxStops = 2
  MaxEvents = 3
  PostTimeout = 12
  HookLimit = 15
  k1 = k1  k2 = k2  k3 = k3
  NoTask = NoTask
  Tasks <- MCTasks
  TaskCap = 1
  MaxCommits = 2
  MaxQuestions = 1
  MaxLines = 3
  MaxSends = 2
  e1 = e1  e2 = e2  e3 = e3  xu = xu  xv = xv  ya = ya  yb = yb
  NoCall = NoCall
  Exchanges <- MCExchanges
  Texts <- MCTexts
  UserText <- MCUserText
  ReplyText <- MCReplyText
  QueueCap = 1
  SeenCap = 3
  MaxRestarts = 1
  MaxSignals = 3
  MaxWritten = 2
  l1 = l1  l2 = l2
  Launches <- MCLaunches
  MaxLaunches = 3
  MaxVersions = 1
  MaxDays = 1
  MaxBadWrites = 1
INVARIANTS
  LocalTypeOK  ServicesSound 
  HandoffsOrderly  CaptureSound DispatchSound ChannelSound
CHECK_DEADLOCK FALSE
