SPECIFICATION ServicesSpec
CONSTANTS
  JJobs = {1, 2}
  JConfigs <- MCJConfigs
  JResults = {"SUCCESS", "UNSTABLE", "NOT_BUILT"}
  MaxBuilds = 3
  MaxJFails = 1
  PContexts = {"default", "build"}
  PConfigs <- MCPConfigs
  GChanges = {1, 2}
  GPage = 1
  MaxGTime = 3
  MaxGMishaps = 1
  SMessages = {1, 2}
  SSub <- MCSSub
  SModes <- MCSModes
  MaxSFails = 1
  UConfigs <- MCUConfigs
  MaxUFails = 2
  RHistories <- MCRHistories
  RPulls <- MCRPulls
  ROptions <- MCROptions
  RReloadAfter = 1
  MaxRFails = 1
  IKinds <- MCIKinds
  IRequests = {1, 2}
  TClients = {1, 2}
  TModes <- MCTModes
  TMaxTicks = 4
  TMaxRetries = 2
  TMax404 = 1
  OCases <- MCOCases
  OUnknown = {"typo"}
  MaxORuns = 3
  MaxOFails = 1
  MaxOHands = 1
  BCases <- MCBCases
  MaxBRuns = 2
  MaxBFails = 1
  MaxBHands = 1
  CInputs <- MCCInputs
  CReserved <- MCCReserved
  CStatic <- MCCStatic
  CCapacity = 3
  CYaml <- MCCYaml
  CEnabled <- MCCEnabled
  MaxCFails = 1
  PRs = {1, 2}
  Query = {"q1", "q2"}
  Covers <- MCCovers
  Ready = {1}
  Passed = {1}
  Blocked = {FALSE}
  MaxTime = 2
  MaxMishaps = 1
 
INVARIANT RuntimeHolds
 
 
PROPERTY WorkFinishes
 
PROPERTY PoolIsShown
CHECK_DEADLOCK FALSE
