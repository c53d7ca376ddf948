SPECIFICATION ControlSpec
VIEW ControlView
CONSTANTS
  sa = sa  sb = sb  alpha = alpha  beta = beta  NoLease = NoLease
  Sessions <- MCSessions
  Holders <- MCHolders
  HolderOf <- MCHolderOf
  TTLs = {2}
  LastTick = 3
  MaxCalls = 4
  na = na  nb = nb  host1 = host1  host2 = host2  NoJob = NoJob
  Names <- MCNames
  Hosts <- MCHosts
  MaxWrites = 2
  MaxJobs = 2
  MaxMishaps = 1
  MaxEvents = 3
  pa = pa  ka = ka  own = own  star = star  nsp = nsp  req = req
  adm1 = adm1  adm2 = adm2
  Principals <- MCPrincipals
  Tokens <- MCTokens
  Bearer <- MCBearer
  Entries <- MCEntries
  Resources <- MCResources
  Covers <- MCCovers
  Star = star
  ApiRequests <- MCApiRequests
  Admins <- MCAdmins
  MaxRoles = 2
  MaxChanges = 3
  m1 = m1  nsA = nsA  nsB = nsB  c1 = c1  c2 = c2  n1 = n1  n2 = n2
  NoRow = NoRow  AnyHost = AnyHost  Fallback = Fallback
  Machines <- MCMachines
  Spaces <- MCSpaces
  Clients <- MCClients
  Pairs <- MCPairs
  MaxBindOps = 4
  MaxOpens = 2
  o = o  oa = oa  oab = oab  a1 = a1  a2 = a2  sl = sl
  r1 = r1  r2 = r2  r3 = r3  subj = subj  NoTag = NoTag
  Spaces3 <- MCSpaces3
  Above <- MCAbove
  Edges <- MCEdges
  Authors <- MCAuthors
  Sleepers <- MCSleepers
  Rules <- MCRules
  Subjects <- MCSubjects
  MaxRows = 3
  MaxFailures = 1
INVARIANTS
  ControlTypeOK CoordinationSound RegistrySound AccessSound ConstraintsSound
CHECK_DEADLOCK FALSE
